---- MODULE Spec2Model ----
(***************************************************************************)
(* JobMatchEngine: the resume parsing core (app/utils/section_extractor.py, *)
(* app/parsers/text_parser.py) and the match scorer                         *)
(* (app/analyzers/matcher.py).                                              *)
(*                                                                          *)
(* A Python str is a sequence of one-character strings; Str("abc") is       *)
(* <<"a","b","c">>.  Characters outside ASCII carry a name ("BULLET" is     *)
(* U+2022).  Optional[T] is a sequence of at most one element: None is      *)
(* <<>> and a present value v is <<v>>.  A float is an exact rational in    *)
(* lowest terms.                                                            *)
(***************************************************************************)
EXTENDS Integers, Sequences, FiniteSets, TLC

VARIABLES resume, job, analysis, text, parsed, calls, request, result, threads, frames, usage

vars == <<resume, job, analysis, text, parsed, calls, request, result, threads, frames, usage>>

\* TokenTracker.__init__: the counters of the tracker of the process
NewUsage ==
    [prompt_tokens |-> 0, completion_tokens |-> 0, total_tokens |-> 0, cached_responses |-> 0]

----------------------------------------------------------------------------
(* Characters and str methods                                              *)

Str(s) == [i \in 1..Len(s) |-> SubSeq(s, i, i)]

None == <<>>
Some(v) == <<v>>

UpperAZ == Str("ABCDEFGHIJKLMNOPQRSTUVWXYZ")
LowerAZ == Str("abcdefghijklmnopqrstuvwxyz")
Digits == {"0", "1", "2", "3", "4", "5", "6", "7", "8", "9"}

\* str.isspace(): the whitespace characters of the model's alphabet
Whitespace == {" ", "\t", "\n", "\r"}

Range(f) == {f[i] : i \in DOMAIN f}

Min2(a, b) == IF a <= b THEN a ELSE b
Max2(a, b) == IF a >= b THEN a ELSE b

BULLET == "BULLET"   \* U+2022
ENDASH == "ENDASH"   \* U+2013
EMDASH == "EMDASH"   \* U+2014
THOUSANDS == "THOUSANDS"   \* U+0482, the Cyrillic thousands sign

\* the Cyrillic alphabet, one transliterated name per letter
CyrNames ==
    <<"a", "b", "v", "g", "d", "e", "yo", "zh", "z", "i", "j", "k", "l", "m", "n", "o",
      "p", "r", "s", "t", "u", "f", "h", "c", "ch", "sh", "sch", "hard", "y", "soft",
      "eh", "yu", "ya">>
CyrLowerChar(n) == "cyr_" \o n
CyrUpperChar(n) == "CYR_" \o n
CyrLower == {CyrLowerChar(n) : n \in Range(CyrNames)}
CyrUpper == {CyrUpperChar(n) : n \in Range(CyrNames)}

\* the least i in a..n with P(i), or 0: what a for loop with a break finds
FirstIndexFrom(P(_), a, n) ==
    IF \E i \in a..n : P(i)
    THEN CHOOSE i \in a..n : P(i) /\ \A j \in a..(i - 1) : ~P(j)
    ELSE 0

\* the greatest i in a..n with P(i), or -1
LastIndexFrom(P(_), a, n) ==
    IF \E i \in a..n : P(i)
    THEN CHOOSE i \in a..n : P(i) /\ \A j \in (i + 1)..n : ~P(j)
    ELSE -1

\* a Russian word in lower case from its letters' names; a space stays a space
Cyr(names) == [i \in DOMAIN names |-> IF names[i] = " " THEN " " ELSE CyrLowerChar(names[i])]

\* str.lower() on one character, also what re.IGNORECASE folds
LowerOf ==
    [c \in Range(UpperAZ) |-> LowerAZ[CHOOSE i \in DOMAIN UpperAZ : UpperAZ[i] = c]]
    @@ [c \in CyrUpper |-> CyrLowerChar(CHOOSE n \in Range(CyrNames) : CyrUpperChar(n) = c)]

\* m[c] where m has an entry for c, and c itself where it has none
Lookup(m, c) == IF c \in DOMAIN m THEN m[c] ELSE c

LowerChar(c) == Lookup(LowerOf, c)

\* str.lower()
LowerStr(s) == [i \in DOMAIN s |-> LowerChar(s[i])]

\* s[a:b] with 0-based half-open bounds, as Python slices
Slice(s, a, b) == SubSeq(s, a + 1, b)

\* needle in hay
Contains(hay, needle) ==
    \E i \in 0..(Len(hay) - Len(needle)) : Slice(hay, i, i + Len(needle)) = needle

\* str.split(): the maximal runs of non-whitespace characters, in order
\* the first index from i on that holds no whitespace, Len(s) + 1 if none
SkipWs(s, i) ==
    LET NotWs(j) == s[j] \notin Whitespace
        j == FirstIndexFrom(NotWs, i, Len(s))
    IN  IF j = 0 THEN Len(s) + 1 ELSE j

\* the last index of the token that starts at i
TokenEnd(s, i) ==
    LET IsWs(j) == s[j] \in Whitespace
        j == FirstIndexFrom(IsWs, i + 1, Len(s))
    IN  IF j = 0 THEN Len(s) ELSE j - 1

RECURSIVE SplitWsFrom(_, _)
SplitWsFrom(s, i) ==
    LET Rest(a, b) == <<SubSeq(s, a, b)>> \o SplitWsFrom(s, b + 1)
        Token(a) == IF a > Len(s) THEN <<>> ELSE Rest(a, TokenEnd(s, a))
    IN  Token(SkipWs(s, i))

SplitWs(s) == SplitWsFrom(s, 1)

\* sep.join(items)
RECURSIVE Join(_, _)
Join(sep, items) ==
    IF items = <<>> THEN <<>>
    ELSE IF Len(items) = 1 THEN items[1]
    ELSE items[1] \o sep \o Join(sep, Tail(items))

\* list concatenation of a list of lists (list.extend in a loop)
RECURSIVE Flatten(_)
Flatten(ss) == IF ss = <<>> THEN <<>> ELSE Head(ss) \o Flatten(Tail(ss))

\* xs[:n]
Take(xs, n) == SubSeq(xs, 1, Min2(n, Len(xs)))

\* list(s) for a set s: CPython fixes no iteration order for a set of str
\* (str hashes are salted per process), so every order can come out
Orderings(S) ==
    {f \in [1..Cardinality(S) -> S] : \A i, j \in DOMAIN f : i # j => f[i] # f[j]}

----------------------------------------------------------------------------
(* Floats as rationals in lowest terms                                      *)

RECURSIVE Gcd(_, _)
Gcd(a, b) == IF b = 0 THEN a ELSE Gcd(b, a % b)

Abs(n) == IF n < 0 THEN -n ELSE n

Rat(n, d) ==
    LET g == Gcd(Abs(n), d) IN [num |-> n \div g, den |-> d \div g]

RatAdd(a, b) == Rat(a.num * b.den + b.num * a.den, a.den * b.den)
RatMul(a, b) == Rat(a.num * b.num, a.den * b.den)
RatLe(a, b) == a.num * b.den <= b.num * a.den
RatMin(a, b) == IF RatLe(a, b) THEN a ELSE b
RatMax(a, b) == IF RatLe(a, b) THEN b ELSE a
Float(n) == Rat(n, 1)

----------------------------------------------------------------------------
(* app/analyzers/matcher.py                                                 *)

\* _extract_resume_keywords splitting the title and the company into words
\* as it does the bullets
ExperienceKeywordsTokenised(exp) ==
    SplitWs(LowerStr(exp.title)) \o SplitWs(LowerStr(exp.company))
        \o Flatten([b \in DOMAIN exp.bullets |-> SplitWs(LowerStr(exp.bullets[b]))])

\* ResumeMatcher._extract_resume_keywords
ExperienceKeywords(exp) ==
    <<LowerStr(exp.title), LowerStr(exp.company)>>
        \o Flatten([b \in DOMAIN exp.bullets |-> SplitWs(LowerStr(exp.bullets[b]))])

ExtractResumeKeywords(r) ==
    r.skills
        \o (IF r.summary # None /\ r.summary[1] # <<>>
            THEN SplitWs(LowerStr(r.summary[1]))
            ELSE <<>>)
        \o Flatten([e \in DOMAIN r.experience |-> ExperienceKeywords(r.experience[e])])

\* set(kw.lower() for kw in ...)
LowerSet(S) == {LowerStr(kw) : kw \in S}

\* the title component compared without lower-casing
TitleScoreCaseSensitive(r, j) ==
    IF j.title = <<>> THEN Float(0)
    ELSE IF Contains(r.raw_text, j.title) THEN Float(10)
         ELSE IF Range(SplitWs(j.title)) \cap Range(SplitWs(r.raw_text)) # {}
              THEN Float(5)
              ELSE Float(0)

\* the title component, lines 131-144
TitleScore(r, j) ==
    IF j.title = <<>> THEN Float(0)
    ELSE LET job_title_lower == LowerStr(j.title)
             resume_text_lower == LowerStr(r.raw_text)
         IN  IF Contains(resume_text_lower, job_title_lower) THEN Float(10)
             ELSE IF Range(SplitWs(job_title_lower)) \cap Range(SplitWs(resume_text_lower)) # {}
                  THEN Float(5)
                  ELSE Float(0)

\* min(100.0, max(0.0, total_score))
Clamp(total_score) == RatMin(Float(100), RatMax(Float(0), total_score))

\* the sum with an empty must-have set earning no must-have points
TotalScoreEmptyMustHaveZero(resume_keywords, job_keywords, must_have, r, j) ==
    LET overlap == resume_keywords \cap job_keywords
        keyword_score ==
            RatMul(Rat(Cardinality(overlap), Cardinality(job_keywords)), Float(60))
        must_have_ratio ==
            IF must_have # {}
            THEN Rat(Cardinality(resume_keywords \cap must_have), Cardinality(must_have))
            ELSE Float(0)
    IN  RatAdd(RatAdd(keyword_score, RatMul(must_have_ratio, Float(30))), TitleScore(r, j))

\* the sum with the keyword term taken over the keywords of the resume
TotalScoreOverResumeKeywords(resume_keywords, job_keywords, must_have, r, j) ==
    LET overlap == resume_keywords \cap job_keywords
        keyword_match_ratio ==
            IF resume_keywords # {}
            THEN Rat(Cardinality(overlap), Cardinality(resume_keywords))
            ELSE Float(0)
        keyword_score == RatMul(keyword_match_ratio, Float(60))
        must_have_match == resume_keywords \cap must_have
        must_have_ratio ==
            IF must_have # {}
            THEN Rat(Cardinality(must_have_match), Cardinality(must_have))
            ELSE Float(1)
        must_have_score == RatMul(must_have_ratio, Float(30))
    IN  RatAdd(RatAdd(keyword_score, must_have_score), TitleScore(r, j))

\* the sum of the three components, lines 119-146
TotalScore(resume_keywords, job_keywords, must_have, r, j) ==
    LET overlap == resume_keywords \cap job_keywords
        keyword_match_ratio == Rat(Cardinality(overlap), Cardinality(job_keywords))
        keyword_score == RatMul(keyword_match_ratio, Float(60))
        must_have_match == resume_keywords \cap must_have
        must_have_ratio ==
            IF must_have # {}
            THEN Rat(Cardinality(must_have_match), Cardinality(must_have))
            ELSE Float(1)
        must_have_score == RatMul(must_have_ratio, Float(30))
    IN  RatAdd(RatAdd(keyword_score, must_have_score), TitleScore(r, j))

\* ResumeMatcher._compute_ats_score with every term weighted by its count and
\* the result returned unclamped
ComputeAtsScoreUnnormalised(resume_keywords, job_keywords, must_have, r, j) ==
    IF job_keywords = {} THEN Float(50)
    ELSE RatAdd(RatAdd(Float(60 * Cardinality(resume_keywords \cap job_keywords)),
                       Float(30 * Cardinality(resume_keywords \cap must_have))),
                TitleScore(r, j))

\* ResumeMatcher._compute_ats_score without the early return of lines 116-117:
\* line 121 then takes the keyword ratio of an empty universe to be 0
ComputeAtsScoreNoEarlyReturn(resume_keywords, job_keywords, must_have, r, j) ==
    IF job_keywords = {}
    THEN Clamp(RatAdd(Float(30), TitleScore(r, j)))
    ELSE Clamp(TotalScore(resume_keywords, job_keywords, must_have, r, j))

\* ResumeMatcher._compute_ats_score
ComputeAtsScore(resume_keywords, job_keywords, must_have, r, j) ==
    IF job_keywords = {} THEN Float(50)
    ELSE Clamp(TotalScore(resume_keywords, job_keywords, must_have, r, j))

MustHaveAdvice == Str("Add must-have keywords: ")
NiceToHaveAdvice == Str("Consider adding: ")
SummaryAdvice == Str("Add a professional summary section highlighting key qualifications")
SkillsAdvice == Str("Expand skills section with relevant keywords")
MinSummaryLen == 50
MinSkills == 5
MaxNamed == 5

\* _generate_recommendations asking for a summary of more than 50 characters
GenerateRecommendationsInclusive(must_list, nice_list, r) ==
    (IF must_list # <<>>
     THEN <<MustHaveAdvice \o Join(Str(", "), Take(must_list, MaxNamed))>>
     ELSE <<>>)
    \o (IF nice_list # <<>>
        THEN <<NiceToHaveAdvice \o Join(Str(", "), Take(nice_list, MaxNamed))>>
        ELSE <<>>)
    \o (IF r.summary = None \/ r.summary[1] = <<>> \/ Len(r.summary[1]) <= MinSummaryLen
        THEN <<SummaryAdvice>>
        ELSE <<>>)
    \o (IF r.skills = <<>> \/ Len(r.skills) < MinSkills
        THEN <<SkillsAdvice>>
        ELSE <<>>)

\* ResumeMatcher._generate_recommendations; must_list and nice_list are
\* list(missing_must_have) and list(missing_nice_to_have)
GenerateRecommendations(must_list, nice_list, r) ==
    (IF must_list # <<>>
     THEN <<MustHaveAdvice \o Join(Str(", "), Take(must_list, MaxNamed))>>
     ELSE <<>>)
    \o (IF nice_list # <<>>
        THEN <<NiceToHaveAdvice \o Join(Str(", "), Take(nice_list, MaxNamed))>>
        ELSE <<>>)
    \o (IF r.summary = None \/ r.summary[1] = <<>> \/ Len(r.summary[1]) < MinSummaryLen
        THEN <<SummaryAdvice>>
        ELSE <<>>)
    \o (IF r.skills = <<>> \/ Len(r.skills) < MinSkills
        THEN <<SkillsAdvice>>
        ELSE <<>>)

\* the case-folded keyword sets of analyze_match, lines 29-46
ResumeKeywordsSet(r) == LowerSet(Range(ExtractResumeKeywords(r)))
JobKeywordsLower(j) ==
    LowerSet(Range(j.keywords \o j.must_have_keywords \o j.nice_to_have_keywords))
MustHaveLower(j) == LowerSet(Range(j.must_have_keywords))
NiceToHaveLower(j) == LowerSet(Range(j.nice_to_have_keywords))

\* ResumeMatcher.analyze_match: the MatchAnalysis values it can return
AnalyzeMatchResults(r, j) ==
    LET resume_keywords_set == ResumeKeywordsSet(r)
        job_keywords_lower == JobKeywordsLower(j)
        must_have_lower == MustHaveLower(j)
        nice_to_have_lower == NiceToHaveLower(j)
        overlap == resume_keywords_set \cap job_keywords_lower
        missing_must_have == must_have_lower \ resume_keywords_set
        missing_nice_to_have == nice_to_have_lower \ resume_keywords_set
        ats_score == ComputeAtsScore(resume_keywords_set, job_keywords_lower,
                                     must_have_lower, r, j)
    IN  {[ats_score |-> ats_score,
          keyword_overlap |-> ov,
          missing_keywords |-> mk,
          recommendations |-> GenerateRecommendations(ml, nl, r)] :
            ov \in Orderings(overlap),
            mk \in Orderings(missing_must_have \cup missing_nice_to_have),
            ml \in Orderings(missing_must_have),
            nl \in Orderings(missing_nice_to_have)}

----------------------------------------------------------------------------
(* Character classes of the re module                                     *)

Letters == Range(UpperAZ) \cup Range(LowerAZ)
\* \w, \d, \s of the re module on str patterns
WordChars == Letters \cup Digits \cup {"_"} \cup CyrLower \cup CyrUpper
IsWord(c) == c \in WordChars

----------------------------------------------------------------------------
(* The re module: a backtracking matcher over a pattern tree                *)
(*                                                                          *)
(* A pattern is a record: set (one character of a class), lit (a literal    *)
(* string), cat, alt, rep (greedy x{lo,hi}, hi = -1 for no upper limit),    *)
(* bol (^), eol ($) and wb (\b).  ReMatch takes the patterns still to match *)
(* as a stack and returns the end offset of the first match in the order    *)
(* the re module tries them, or -1.  Offsets count characters consumed.     *)

ReSet(S) == [t |-> "set", s |-> S]
ReLit(str) == [t |-> "lit", s |-> str]
\* a sequence of patterns; a sequence inside a sequence is spliced in
ReCat(xs) ==
    [t |-> "cat",
     xs |-> Flatten([k \in DOMAIN xs |-> IF xs[k].t = "cat" THEN xs[k].xs ELSE <<xs[k]>>])]
ReAlt(xs) == [t |-> "alt", xs |-> xs]
ReRep(x, lo, hi) == [t |-> "rep", x |-> x, lo |-> lo, hi |-> hi]
ReOpt(x) == ReRep(x, 0, 1)
ReStar(x) == ReRep(x, 0, -1)
RePlus(x) == ReRep(x, 1, -1)
ReBol == [t |-> "bol"]
ReEol == [t |-> "eol"]
ReWb == [t |-> "wb"]

NoMatch == -1

\* \b: exactly one of the characters before and after offset i is a word character
AtWordBoundary(s, i) ==
    Cardinality({k \in {i, i + 1} : k \in 1..Len(s) /\ IsWord(s[k])}) = 1

\* two characters equal, or equal after case folding under re.IGNORECASE
SameChar(a, b, ci) == a = b \/ (ci /\ Cardinality({LowerChar(c) : c \in {a, b}}) = 1)

LitAt(s, i, lit, ci) ==
    /\ i + Len(lit) <= Len(s)
    /\ \A k \in 1..Len(lit) : SameChar(s[i + k], lit[k], ci)

\* whether pattern x can start at offset p, decided on the next character
\* alone; TRUE for the patterns that need a full attempt.  Used to skip the
\* alternatives and the repetition counts that the next character rules out.
CanStart(x, s, p, ci) ==
    CASE x.t = "set" -> p < Len(s) /\ s[p + 1] \in x.s
      [] x.t = "lit" -> LitAt(s, p, x.s, ci)
      [] x.t = "wb" -> AtWordBoundary(s, p)
      [] x.t = "bol" -> p = 0
      [] OTHER -> TRUE

\* the pattern a stack entry starts with
Leading(x) == IF x.t = "cat" /\ x.xs # <<>> THEN x.xs[1] ELSE x

CanFollow(stack, s, p, ci) == stack = <<>> \/ CanStart(Leading(Head(stack)), s, p, ci)

\* the length of the longest run of characters of class from offset i, at most limit
RunLength(class, s, i, limit) ==
    LET Outside(j) == s[j] \notin class
        Upto(stop) == IF stop = 0 THEN limit ELSE stop - i - 1
    IN  Upto(FirstIndexFrom(Outside, i + 1, i + limit))

\* the first of two match results that is a match
OrElse(first, second) == IF first # NoMatch THEN first ELSE second

RECURSIVE ReMatch(_, _, _, _)
ReMatch(stack, s, i, ci) ==
    CASE stack = <<>> -> i
      [] stack # <<>> /\ Head(stack).t = "set" ->
            IF i < Len(s) /\ s[i + 1] \in Head(stack).s
            THEN ReMatch(Tail(stack), s, i + 1, ci) ELSE NoMatch
      [] stack # <<>> /\ Head(stack).t = "lit" ->
            IF LitAt(s, i, Head(stack).s, ci)
            THEN ReMatch(Tail(stack), s, i + Len(Head(stack).s), ci) ELSE NoMatch
      [] stack # <<>> /\ Head(stack).t = "cat" ->
            ReMatch(Head(stack).xs \o Tail(stack), s, i, ci)
      [] stack # <<>> /\ Head(stack).t = "bol" ->
            IF i = 0 THEN ReMatch(Tail(stack), s, i, ci) ELSE NoMatch
      [] stack # <<>> /\ Head(stack).t = "eol" ->
            IF i = Len(s) \/ (i = Len(s) - 1 /\ s[Len(s)] = "\n")
            THEN ReMatch(Tail(stack), s, i, ci) ELSE NoMatch
      [] stack # <<>> /\ Head(stack).t = "wb" ->
            IF AtWordBoundary(s, i) THEN ReMatch(Tail(stack), s, i, ci) ELSE NoMatch
      [] stack # <<>> /\ Head(stack).t = "alt" ->
            \* the alternatives in the order written: the first that leads to a
            \* match; k is the first alternative that can start here, 0 for none
            LET h == Head(stack)
                Viable(k) == CanFollow(<<h.xs[k]>>, s, i, ci)
                From(k) ==
                    IF k = 0 THEN NoMatch
                    ELSE OrElse(ReMatch(<<h.xs[k]>> \o Tail(stack), s, i, ci),
                                ReMatch(<<ReAlt(SubSeq(h.xs, k + 1, Len(h.xs)))>>
                                          \o Tail(stack), s, i, ci))
            IN  From(FirstIndexFrom(Viable, 1, Len(h.xs)))
      [] stack # <<>> /\ Head(stack).t = "rep" /\ Head(stack).x.t = "set" ->
            \* x{lo,hi} on a character class, greedy: the largest count first.
            \* A count is tried when the rest can start after it; when the
            \* rest then fails, the counts below it are tried the same way.
            \* c is the largest such count, -1 for none.
            LET h == Head(stack)
                limit == IF h.hi < 0 THEN Len(s) - i ELSE Min2(h.hi, Len(s) - i)
                CanStop(c) == CanFollow(Tail(stack), s, i + c, ci)
                From(c) ==
                    IF c < 0 THEN NoMatch
                    ELSE OrElse(ReMatch(Tail(stack), s, i + c, ci),
                                IF c = h.lo THEN NoMatch
                                ELSE ReMatch(<<ReRep(h.x, h.lo, c - 1)>> \o Tail(stack),
                                             s, i, ci))
            IN  From(LastIndexFrom(CanStop, h.lo, RunLength(h.x.s, s, i, limit)))
      [] stack # <<>> /\ Head(stack).t = "rep" /\ Head(stack).x.t # "set" ->
            \* x{lo,hi}, greedy: once more if that leads to a match, else stop here
            LET h == Head(stack)
            IN  OrElse(IF h.hi = 0 THEN NoMatch
                       ELSE ReMatch(<<h.x, ReRep(h.x, Max2(h.lo - 1, 0),
                                                 IF h.hi < 0 THEN -1 ELSE h.hi - 1)>>
                                      \o Tail(stack), s, i, ci),
                       IF h.lo = 0 THEN ReMatch(Tail(stack), s, i, ci) ELSE NoMatch)

\* re.match(pattern, s): the end of the match at offset 0, or NoMatch
MatchEnd(re, s, ci) == ReMatch(<<re>>, s, 0, ci)
Matches(re, s, ci) == MatchEnd(re, s, ci) # NoMatch

\* the match that starts first among the matches found, None if there is none
Leftmost(hits) ==
    IF hits = {} THEN None
    ELSE Some(CHOOSE a \in hits : \A b \in hits : a.start <= b.start)

\* re.search(pattern, s) from offset i: None, or the leftmost match as [start, end]
SearchFrom(re, s, i, ci) ==
    Leftmost({a \in {[start |-> j, end |-> ReMatch(<<re>>, s, j, ci)] : j \in i..Len(s)} :
                a.end # NoMatch})

Search(re, s, ci) == SearchFrom(re, s, 0, ci)
Found(re, s, ci) == Search(re, s, ci) # None

\* match.group(0)
Group0(m, s) == Slice(s, m.start, m.end)

\* re.sub(pattern, "", s): every non-overlapping match removed, left to right
\* (none of the program's patterns matches the empty string)
RECURSIVE SubFrom(_, _, _, _)
SubFrom(re, s, i, ci) ==
    LET Cut(m) == IF m = None \/ m[1].end = m[1].start THEN Slice(s, i, Len(s))
                  ELSE Slice(s, i, m[1].start) \o SubFrom(re, s, m[1].end, ci)
    IN  Cut(SearchFrom(re, s, i, ci))

Sub(re, s, ci) == SubFrom(re, s, 0, ci)

----------------------------------------------------------------------------
(* More str methods                                                         *)

\* str.strip()
\* the last index up to j that holds no whitespace, 0 if none
StripEnd(s, j) ==
    LET NotWsFromEnd(m) == s[j - m + 1] \notin Whitespace
        m == FirstIndexFrom(NotWsFromEnd, 1, j)
    IN  IF m = 0 THEN 0 ELSE j - m + 1

Strip(s) ==
    LET Between(a, b) == IF a > Len(s) THEN <<>> ELSE SubSeq(s, a, b)
    IN  Between(SkipWs(s, 1), StripEnd(s, Len(s)))

\* s.split(sep) for a one-character sep: the fields between separators
RECURSIVE SplitOnFrom(_, _, _)
SplitOnFrom(s, sep, a) ==
    LET IsSep(j) == s[j] = sep
        j == FirstIndexFrom(IsSep, a, Len(s))
    IN  IF j = 0 THEN <<SubSeq(s, a, Len(s))>>
        ELSE <<SubSeq(s, a, j - 1)>> \o SplitOnFrom(s, sep, j + 1)

SplitOn(s, sep) == SplitOnFrom(s, sep, 1)

\* text.split("\n") and "\n".join(lines)
SplitLines(s) == SplitOn(s, "\n")
JoinLines(lines) == Join(<<"\n">>, lines)

\* [f(x) for x in xs if keep(x)]
MapSeq(f(_), xs) == [i \in DOMAIN xs |-> f(xs[i])]
RECURSIVE NonEmptyOnly(_)
NonEmptyOnly(xs) ==
    IF xs = <<>> THEN <<>>
    ELSE (IF Head(xs) # <<>> THEN <<Head(xs)>> ELSE <<>>) \o NonEmptyOnly(Tail(xs))

\* s.startswith(("-", "*", ...))
StartsWithAny(s, chars) == s # <<>> /\ s[1] \in chars

\* s.replace(old, ""), old non-empty
RECURSIVE RemoveAll(_, _, _)
RemoveAll(s, old, i) ==
    LET OldAt(j) == SubSeq(s, j, j + Len(old) - 1) = old
        j == FirstIndexFrom(OldAt, i, Len(s) - Len(old) + 1)
    IN  IF j = 0 THEN SubSeq(s, i, Len(s))
        ELSE SubSeq(s, i, j - 1) \o RemoveAll(s, old, j + Len(old))

----------------------------------------------------------------------------
(* app/utils/section_extractor.py: patterns                                 *)

\* (?i)^(w1|w2|...)
\* the words looked for anywhere in the line
HeaderReAnywhere(words) ==
    ReCat(<<ReStar(ReSet(Letters \cup Whitespace)),
            ReAlt([i \in DOMAIN words |-> ReLit(words[i])])>>)

HeaderRe(words) == ReCat(<<ReBol, ReAlt([i \in DOMAIN words |-> ReLit(words[i])])>>)

\* SectionExtractor.SECTION_PATTERNS, in the dict's order
SectionNames == <<"summary", "experience", "skills", "education", "contact">>

SECTION_PATTERNS(name) ==
    CASE name = "summary" ->
           <<HeaderRe(<<Str("summary"), Str("profile"), Str("objective"), Str("about"),
                        Cyr(<<"r", "e", "z", "yu", "m", "e">>),
                        Cyr(<<"p", "r", "o", "f", "i", "l", "soft">>),
                        Cyr(<<"o", " ", "s", "e", "b", "e">>)>>),
             HeaderRe(<<Str("professional summary"), Str("executive summary")>>)>>
      [] name = "experience" ->
           <<HeaderRe(<<Str("experience"), Str("work experience"), Str("employment"),
                        Str("work history"),
                        Cyr(<<"o", "p", "y", "t", " ", "r", "a", "b", "o", "t", "y">>),
                        Cyr(<<"t", "r", "u", "d", "o", "v", "o", "j", " ", "o", "p", "y", "t">>),
                        Cyr(<<"m", "e", "s", "t", "a", " ", "r", "a", "b", "o", "t", "y">>)>>),
             HeaderRe(<<Str("professional experience"), Str("career history")>>)>>
      [] name = "skills" ->
           <<HeaderRe(<<Str("skills"), Str("technical skills"), Str("core competencies"),
                        Cyr(<<"n", "a", "v", "y", "k", "i">>),
                        Cyr(<<"k", "o", "m", "p", "e", "t", "e", "n", "c", "i", "i">>),
                        Cyr(<<"t", "e", "h", "n", "i", "ch", "e", "s", "k", "i", "e", " ",
                              "n", "a", "v", "y", "k", "i">>)>>),
             HeaderRe(<<Str("key skills"), Str("professional skills")>>)>>
      [] name = "education" ->
           <<HeaderRe(<<Str("education"), Str("academic background"), Str("qualifications"),
                        Cyr(<<"o", "b", "r", "a", "z", "o", "v", "a", "n", "i", "e">>),
                        Cyr(<<"k", "v", "a", "l", "i", "f", "i", "k", "a", "c", "i", "ya">>)>>),
             HeaderRe(<<Str("educational background"), Str("academic qualifications")>>)>>
      [] name = "contact" ->
           <<HeaderRe(<<Str("contact"), Str("contact information"),
                        Str("personal information"),
                        Cyr(<<"k", "o", "n", "t", "a", "k", "t", "y">>),
                        Cyr(<<"k", "o", "n", "t", "a", "k", "t", "n", "a", "ya", " ",
                              "i", "n", "f", "o", "r", "m", "a", "c", "i", "ya">>)>>)>>
      [] OTHER -> <<>>

Alnum == Letters \cup Digits
Separators == {"-", ".", " ", "\t", "\n", "\r"}    \* [-.\s]
BulletChars == {"-", BULLET, "*"}                   \* [-*] and U+2022
DashChars == {"-", ENDASH, EMDASH}

\* \b[A-Za-z0-9._%+-]+@[A-Za-z0-9.-]+\.[A-Z|a-z]{2,}\b
EMAIL_PATTERN ==
    ReCat(<<ReWb, RePlus(ReSet(Alnum \cup {".", "_", "%", "+", "-"})), ReLit(<<"@">>),
            RePlus(ReSet(Alnum \cup {".", "-"})), ReLit(<<".">>),
            ReRep(ReSet(Letters \cup {"|"}), 2, -1), ReWb>>)

\* (\+?\d{1,3}[-.\s]?)?\(?\d{1,4}\)?[-.\s]?\d{1,4}[-.\s]?\d{1,9}
PHONE_PATTERN ==
    ReCat(<<ReOpt(ReCat(<<ReOpt(ReLit(<<"+">>)), ReRep(ReSet(Digits), 1, 3),
                          ReOpt(ReSet(Separators))>>)),
            ReOpt(ReLit(<<"(">>)), ReRep(ReSet(Digits), 1, 4), ReOpt(ReLit(<<")">>)),
            ReOpt(ReSet(Separators)), ReRep(ReSet(Digits), 1, 4),
            ReOpt(ReSet(Separators)), ReRep(ReSet(Digits), 1, 9)>>)

\* (?:linkedin\.com/in/|linkedin\.com/pub/) and ([\w-]+), re.IGNORECASE
LinkedinPrefix == ReAlt(<<ReLit(Str("linkedin.com/in/")), ReLit(Str("linkedin.com/pub/"))>>)
HandleRe == RePlus(ReSet(WordChars \cup {"-"}))
LINKEDIN_PATTERN == ReCat(<<LinkedinPrefix, HandleRe>>)

\* github\.com/ and ([\w-]+), re.IGNORECASE
GithubPrefix == ReLit(Str("github.com/"))
GITHUB_PATTERN == ReCat(<<GithubPrefix, HandleRe>>)

\* (?i)^(email|phone|location|address|contact|summary|experience|skills|education)
CommonHeaderRe ==
    HeaderRe(<<Str("email"), Str("phone"), Str("location"), Str("address"), Str("contact"),
               Str("summary"), Str("experience"), Str("skills"), Str("education")>>)

\* ^[-*]\s* with U+2022 in the class, and ^\d+[.)]\s*
BulletMarkRe == ReCat(<<ReBol, ReSet(BulletChars), ReStar(ReSet(Whitespace))>>)
NumberMarkRe ==
    ReCat(<<ReBol, RePlus(ReSet(Digits)), ReSet({".", ")"}), ReStar(ReSet(Whitespace))>>)
\* ^\d+[.)]
NumberedRe == ReCat(<<ReBol, RePlus(ReSet(Digits)), ReSet({".", ")"})>>)

----------------------------------------------------------------------------
(* app/utils/section_extractor.py: the section locator, summary, skills     *)

\* re.match(pattern, line) for some pattern of the list
MatchesAny(patterns, line, ci) == \E k \in DOMAIN patterns : Matches(patterns[k], line, ci)

\* re.match(pattern, line) for some pattern of the section
MatchesSection(line, name) == MatchesAny(SECTION_PATTERNS(name), line, TRUE)

MatchesOtherSection(line, name) ==
    \E k \in DOMAIN SectionNames :
        SectionNames[k] # name /\ MatchesSection(line, SectionNames[k])

\* the first line that is a header of the section, 0 if none (lines 245-254)
SectionStart(lines, section_name) ==
    LET IsStart(i) == MatchesSection(Strip(lines[i]), section_name)
    IN  FirstIndexFrom(IsStart, 1, Len(lines))

\* the lines from the header at start_idx up to the next header of any section
SectionFromUptoAnyHeader(lines, start_idx, section_name) ==
    LET IsEnd(i) ==
            /\ Strip(lines[i]) # <<>>
            /\ \E k \in DOMAIN SectionNames : MatchesSection(Strip(lines[i]), SectionNames[k])
        Upto(found_end) ==
            SubSeq(lines, start_idx, IF found_end = 0 THEN Len(lines) ELSE found_end - 1)
    IN  IF start_idx = 0 THEN None
        ELSE Some(JoinLines(Upto(FirstIndexFrom(IsEnd, start_idx + 1, Len(lines)))))

\* the lines from the header at start_idx up to the next header of another
\* section (lines 256-281); line indices are 1-based here
SectionFrom(lines, start_idx, section_name) ==
    LET IsEnd(i) == Strip(lines[i]) # <<>> /\ MatchesOtherSection(Strip(lines[i]), section_name)
        Upto(found_end) ==
            SubSeq(lines, start_idx, IF found_end = 0 THEN Len(lines) ELSE found_end - 1)
    IN  IF start_idx = 0 THEN None
        ELSE Some(JoinLines(Upto(FirstIndexFrom(IsEnd, start_idx + 1, Len(lines)))))

SectionOfLines(lines, section_name) ==
    SectionFrom(lines, SectionStart(lines, section_name), section_name)

\* SectionExtractor._extract_section with no section found giving the text
ExtractSectionWholeText(t, section_name) ==
    LET OrText(section) == IF section = None THEN Some(t) ELSE section
    IN  OrText(SectionOfLines(SplitLines(t), section_name))

\* SectionExtractor._extract_section
ExtractSection(t, section_name) == SectionOfLines(SplitLines(t), section_name)

\* a section that is neither None nor the empty string
Truthy(section) == section # None /\ section[1] # <<>>

\* x if x else None
NoneIfEmpty(x) == IF x # <<>> THEN Some(x) ELSE None

\* SectionExtractor.extract_summary
ExtractSummary(t) ==
    LET WithoutHeader(summary_section) ==
            IF Truthy(summary_section)
            THEN NoneIfEmpty(Strip(JoinLines(Tail(SplitLines(summary_section[1])))))
            ELSE None
    IN  WithoutHeader(ExtractSection(t, "summary"))

\* the items of a line with the pipe taking precedence over the comma
SkillItemsPipeFirst(raw_line) ==
    LET Items(line) ==
            IF {",", "|"} \cap Range(line) # {}
            THEN MapSeq(Strip, SplitOn(line, IF "|" \in Range(line) THEN "|" ELSE ","))
            ELSE IF line # <<>> THEN <<line>>
            ELSE <<>>
        Marked(stripped) ==
            IF stripped = <<>> THEN <<>>
            ELSE Items(Sub(NumberMarkRe, Sub(BulletMarkRe, stripped, FALSE), FALSE))
    IN  Marked(Strip(raw_line))

\* the items one line of the skills section adds, lines 192-210
SkillItems(raw_line) ==
    LET Items(line) ==
            IF {",", "|"} \cap Range(line) # {}
            THEN MapSeq(Strip, SplitOn(line, IF "," \in Range(line) THEN "," ELSE "|"))
            ELSE IF line # <<>> THEN <<line>>
            ELSE <<>>
        Marked(stripped) ==
            IF stripped = <<>> THEN <<>>
            ELSE Items(Sub(NumberMarkRe, Sub(BulletMarkRe, stripped, FALSE), FALSE))
    IN  Marked(Strip(raw_line))

\* list(dict.fromkeys(xs)): the first occurrence of every element, in order
RECURSIVE DictFromKeys(_, _)
DictFromKeys(xs, seen) ==
    IF xs = <<>> THEN <<>>
    ELSE IF Head(xs) \in seen THEN DictFromKeys(Tail(xs), seen)
         ELSE <<Head(xs)>> \o DictFromKeys(Tail(xs), seen \cup {Head(xs)})

\* SectionExtractor.extract_skills
ExtractSkills(t) ==
    LET Skills(lines) == Flatten([i \in DOMAIN lines |-> SkillItems(lines[i])])
        FromSection(skills_section) ==
            IF ~Truthy(skills_section) THEN <<>>
            ELSE DictFromKeys(NonEmptyOnly(MapSeq(Strip,
                                  Skills(Tail(SplitLines(skills_section[1]))))), {})
    IN  FromSection(ExtractSection(t, "skills"))

----------------------------------------------------------------------------
(* app/utils/section_extractor.py: contact details                          *)

\* match.group(0) of a search in t, or None
GroupOrNone(m, t) == IF m = None THEN None ELSE Some(Group0(m[1], t))

\* match.group(0) of pattern.search(t), or None
SearchGroup0(re, t, ci) == GroupOrNone(Search(re, t, ci), t)

\* match.group(1) of a search for prefix followed by the group's pattern
SearchGroup1(prefix, group, t, ci) ==
    LET Group1(m) ==
            IF m = None THEN None
            ELSE Some(Slice(t, ReMatch(<<prefix>>, t, m[1].start, ci), m[1].end))
    IN  Group1(Search(ReCat(<<prefix, group>>), t, ci))

MaxNameLines == 10
MinNameWords == 2
MaxNameWords == 4

\* IsNameLine without the test on the number of words
IsNameLineAnyLength(line, email, phone) ==
    /\ line # <<>>
    /\ ~(email # None /\ email[1] # <<>> /\ Contains(line, email[1]))
    /\ ~(phone # None /\ phone[1] # <<>> /\ Contains(line, phone[1]))
    /\ ~Found(CommonHeaderRe, line, TRUE)
    /\ \A i \in DOMAIN line : line[i] \notin Digits
    /\ ~StartsWithAny(line, {"-", BULLET, "*", "#"})
    /\ ":" \notin Range(line)

\* the test a line of the first ten has to pass to become the name, lines 91-115
IsNameLine(line, email, phone) ==
    /\ line # <<>>
    /\ ~(email # None /\ email[1] # <<>> /\ Contains(line, email[1]))
    /\ ~(phone # None /\ phone[1] # <<>> /\ Contains(line, phone[1]))
    /\ ~Found(CommonHeaderRe, line, TRUE)
    /\ Len(SplitWs(line)) \in MinNameWords..MaxNameWords
    /\ \A i \in DOMAIN line : line[i] \notin Digits
    /\ ~StartsWithAny(line, {"-", BULLET, "*", "#"})
    /\ ":" \notin Range(line)

\* the profile URL made of a handle, None without one
ProfileUrl(site, handle) == IF handle = None THEN None ELSE Some(site \o handle[1])

\* the ContactInfo of lines 86-124, from the first lines and the matches
ContactOf(lines, email, phone, linkedin_handle, github_handle) ==
    LET IsName(i) == IsNameLine(lines[i], email, phone)
        Name(name_idx) == IF name_idx = 0 THEN None ELSE Some(lines[name_idx])
    IN  [name |-> Name(FirstIndexFrom(IsName, 1, Len(lines))),
         email |-> email,
         phone |-> phone,
         location |-> None,
         linkedin |-> ProfileUrl(Str("https://linkedin.com/in/"), linkedin_handle),
         github |-> ProfileUrl(Str("https://github.com/"), github_handle)]

\* SectionExtractor.extract_contact
ExtractContact(t) ==
    ContactOf(MapSeq(Strip, Take(SplitLines(t), MaxNameLines)),
              SearchGroup0(EMAIL_PATTERN, t, FALSE),
              SearchGroup0(PHONE_PATTERN, t, FALSE),
              SearchGroup1(LinkedinPrefix, HandleRe, t, TRUE),
              SearchGroup1(GithubPrefix, HandleRe, t, TRUE))

----------------------------------------------------------------------------
(* app/utils/section_extractor.py: work experience                          *)

\* \b(19|20)\d{2}\b
YearRe ==
    ReCat(<<ReWb, ReAlt(<<ReLit(Str("19")), ReLit(Str("20"))>>),
            ReRep(ReSet(Digits), 2, 2), ReWb>>)

\* (year(\s*[-dash]\s*(year|Present|Current))?), re.IGNORECASE
DateRangeRe ==
    ReCat(<<YearRe,
            ReOpt(ReCat(<<ReStar(ReSet(Whitespace)), ReSet(DashChars),
                          ReStar(ReSet(Whitespace)),
                          ReAlt(<<YearRe, ReLit(Str("Present")), ReLit(Str("Current"))>>)>>))>>)

\* (?i)^(experience|work experience|employment|work history|<opyt raboty>)
ExperienceHeaderRe ==
    HeaderRe(<<Str("experience"), Str("work experience"), Str("employment"),
               Str("work history"),
               Cyr(<<"o", "p", "y", "t", " ", "r", "a", "b", "o", "t", "y">>)>>)

\* line.startswith(('-', U+2022, '*'))
StartsWithBullet(line) == StartsWithAny(line, BulletChars)
\* ... or re.match(r'^\d+[.)]', line)
IsBullet(line) == StartsWithBullet(line) \/ Matches(NumberedRe, line, FALSE)

MaxHeaderLines == 3
MinTitleLen == 3

\* entries with the entry being collected closed, if it has lines
CloseEntryAlways(entries, current_entry) == Append(entries, JoinLines(current_entry))

CloseEntry(entries, current_entry) ==
    IF current_entry # <<>> THEN Append(entries, JoinLines(current_entry)) ELSE entries

\* the pass with an empty line skipped, the entry being collected left open
SplitExperienceLineKeepingOpen(line, line_stripped, is_bullet, has_dates, entries, current_entry) ==
    IF line_stripped = <<>> THEN
        [entries |-> entries, current_entry |-> current_entry]
    ELSE IF current_entry # <<>>
            /\ \E k \in DOMAIN current_entry : StartsWithBullet(Strip(current_entry[k])) THEN
        [entries |-> entries, current_entry |-> Append(current_entry, line)]
    ELSE IF is_bullet THEN
        [entries |-> entries, current_entry |-> Append(current_entry, line)]
    ELSE IF Len(current_entry) < MaxHeaderLines THEN
        [entries |-> entries, current_entry |-> Append(current_entry, line)]
    ELSE IF ~has_dates /\ ~is_bullet /\ Len(line_stripped) > MinTitleLen THEN
        [entries |-> Append(entries, JoinLines(current_entry)), current_entry |-> <<line>>]
    ELSE
        [entries |-> entries, current_entry |-> Append(current_entry, line)]

\* one pass of the loop of _split_experience_entries, lines 293-325: the
\* entries closed so far and the lines of the entry being collected
SplitExperienceLine(line, line_stripped, is_bullet, has_dates, entries, current_entry) ==
    IF line_stripped = <<>> THEN
        [entries |-> CloseEntry(entries, current_entry), current_entry |-> <<>>]
    ELSE IF current_entry # <<>>
            /\ \E k \in DOMAIN current_entry : StartsWithBullet(Strip(current_entry[k])) THEN
        [entries |-> entries, current_entry |-> Append(current_entry, line)]
    ELSE IF is_bullet THEN
        [entries |-> entries, current_entry |-> Append(current_entry, line)]
    ELSE IF Len(current_entry) < MaxHeaderLines THEN
        [entries |-> entries, current_entry |-> Append(current_entry, line)]
    ELSE IF ~has_dates /\ ~is_bullet /\ Len(line_stripped) > MinTitleLen THEN
        [entries |-> Append(entries, JoinLines(current_entry)), current_entry |-> <<line>>]
    ELSE
        [entries |-> entries, current_entry |-> Append(current_entry, line)]

\* the loop from line i on, and the closing of the last entry (lines 327-328)
RECURSIVE SplitExperienceLoop(_, _, _)
SplitExperienceLoop(lines, i, collected) ==
    IF i > Len(lines) THEN CloseEntry(collected.entries, collected.current_entry)
    ELSE LET Pass(line_stripped) ==
                 SplitExperienceLine(lines[i], line_stripped, IsBullet(line_stripped),
                                     Found(YearRe, line_stripped, FALSE),
                                     collected.entries, collected.current_entry)
         IN  SplitExperienceLoop(lines, i + 1, Pass(Strip(lines[i])))

\* lines 289-291: the first line is left out when it is the section header
DropExperienceHeader(all_lines) ==
    IF Matches(ExperienceHeaderRe, Strip(all_lines[1]), TRUE)
    THEN Tail(all_lines) ELSE all_lines

\* SectionExtractor._split_experience_entries
SplitExperienceEntries(section_text) ==
    SplitExperienceLoop(DropExperienceHeader(SplitLines(section_text)), 1,
                        [entries |-> <<>>, current_entry |-> <<>>])

\* the partition by marker alone: an unmarked line is a header line
RECURSIVE PartitionEntryByMarkOnly(_, _, _, _)
PartitionEntryByMarkOnly(lines, i, header_lines, bullet_lines) ==
    IF i > Len(lines) THEN [header |-> header_lines, bullets |-> bullet_lines]
    ELSE IF IsBullet(lines[i])
         THEN PartitionEntryByMarkOnly(lines, i + 1, header_lines, Append(bullet_lines, lines[i]))
         ELSE PartitionEntryByMarkOnly(lines, i + 1, Append(header_lines, lines[i]), bullet_lines)

\* the header/bullet partition of an entry's lines, lines 351-361
RECURSIVE PartitionEntry(_, _, _, _)
PartitionEntry(lines, i, header_lines, bullet_lines) ==
    IF i > Len(lines) THEN [header |-> header_lines, bullets |-> bullet_lines]
    ELSE IF IsBullet(lines[i]) \/ bullet_lines # <<>>
         THEN PartitionEntry(lines, i + 1, header_lines, Append(bullet_lines, lines[i]))
         ELSE PartitionEntry(lines, i + 1, Append(header_lines, lines[i]), bullet_lines)

\* the pass with the text before the date taken as company in any case
ParseHeaderLineOverwritingCompany(i, line, has_date, dates_match, text_before_date, title, company, dates) ==
    IF i = 1 /\ ~has_date THEN
        [title |-> line, company |-> company, dates |-> dates]
    ELSE IF i = 2 /\ ~has_date THEN
        [title |-> title, company |-> line, dates |-> dates]
    ELSE IF has_date THEN
        [title |-> title,
         company |-> IF text_before_date # <<>> THEN text_before_date ELSE company,
         dates |-> IF dates_match # None THEN Strip(Group0(dates_match[1], line)) ELSE dates]
    ELSE IF title = <<>> /\ company = <<>> THEN
        [title |-> line, company |-> company, dates |-> dates]
    ELSE IF title # <<>> /\ company = <<>> THEN
        [title |-> title, company |-> line, dates |-> dates]
    ELSE
        [title |-> title, company |-> company, dates |-> dates]

\* one pass of the loop over header_lines, lines 364-395; i is the 1-based position
ParseHeaderLine(i, line, has_date, dates_match, text_before_date, title, company, dates) ==
    IF i = 1 /\ ~has_date THEN
        [title |-> line, company |-> company, dates |-> dates]
    ELSE IF i = 2 /\ ~has_date THEN
        [title |-> title, company |-> line, dates |-> dates]
    ELSE IF has_date THEN
        [title |-> title,
         company |-> IF text_before_date # <<>> /\ company = <<>>
                     THEN text_before_date ELSE company,
         dates |-> IF dates_match # None THEN Strip(Group0(dates_match[1], line)) ELSE dates]
    ELSE IF title = <<>> /\ company = <<>> THEN
        [title |-> line, company |-> company, dates |-> dates]
    ELSE IF title # <<>> /\ company = <<>> THEN
        [title |-> title, company |-> line, dates |-> dates]
    ELSE
        [title |-> title, company |-> company, dates |-> dates]

RECURSIVE ParseHeaderLoop(_, _, _)
ParseHeaderLoop(header_lines, i, head) ==
    IF i > Len(header_lines) THEN head
    ELSE ParseHeaderLoop(header_lines, i + 1,
             ParseHeaderLine(i, header_lines[i],
                             Found(YearRe, header_lines[i], FALSE),
                             Search(DateRangeRe, header_lines[i], TRUE),
                             Strip(Sub(DateRangeRe, header_lines[i], TRUE)),
                             head.title, head.company, head.dates))

\* a bullet line without its marker, lines 398-403
CleanBullet(line) == Strip(Sub(NumberMarkRe, Sub(BulletMarkRe, line, FALSE), FALSE))

Unknown == Str("Unknown")
\* x, empty or not
OrUnknownKeepingEmpty(x) == x

\* x or "Unknown"
OrUnknown(x) == IF x # <<>> THEN x ELSE Unknown

\* SectionExtractor._parse_experience_entry: None, or the Experience
ParseExperienceEntry(entry_text) ==
    LET Entry(head, bullet_lines) ==
            [title |-> OrUnknown(head.title),
             company |-> OrUnknown(head.company),
             dates |-> head.dates,
             location |-> None,
             bullets |-> NonEmptyOnly(MapSeq(CleanBullet, bullet_lines)),
             raw_text |-> entry_text]
        FromParts(parts) ==
            Entry(ParseHeaderLoop(parts.header, 1,
                                  [title |-> <<>>, company |-> <<>>, dates |-> <<>>]),
                  parts.bullets)
        FromLines(lines) ==
            IF lines = <<>> THEN None
            ELSE Some(FromParts(PartitionEntry(lines, 1, <<>>, <<>>)))
    IN  FromLines(NonEmptyOnly(MapSeq(Strip, SplitLines(entry_text))))

\* the loop of extract_experience, lines 167-170: the entries that parse
ParseExperienceEntries(entries) ==
    Flatten([i \in DOMAIN entries |-> ParseExperienceEntry(entries[i])])

\* SectionExtractor.extract_experience
ExtractExperience(t) ==
    LET FromSection(experience_section) ==
            IF ~Truthy(experience_section) THEN <<>>
            ELSE ParseExperienceEntries(SplitExperienceEntries(experience_section[1]))
    IN  FromSection(ExtractSection(t, "experience"))

----------------------------------------------------------------------------
(* app/utils/section_extractor.py: education                                *)

\* (?i)(bachelor|master|phd|doctorate|degree|<bakalavr>|<magistr>|<diplom>)
DegreeWordRe ==
    ReAlt(<<ReLit(Str("bachelor")), ReLit(Str("master")), ReLit(Str("phd")),
            ReLit(Str("doctorate")), ReLit(Str("degree")),
            ReLit(Cyr(<<"b", "a", "k", "a", "l", "a", "v", "r">>)),
            ReLit(Cyr(<<"m", "a", "g", "i", "s", "t", "r">>)),
            ReLit(Cyr(<<"d", "i", "p", "l", "o", "m">>))>>)

\* ... followed by [\w\s]*
DegreeRe == ReCat(<<DegreeWordRe, ReStar(ReSet(WordChars \cup Whitespace))>>)

\* (\d{4}|\d{1,2}/\d{4})
EduDateRe ==
    ReAlt(<<ReRep(ReSet(Digits), 4, 4),
            ReCat(<<ReRep(ReSet(Digits), 1, 2), ReLit(<<"/">>), ReRep(ReSet(Digits), 4, 4)>>)>>)

\* date(\s*[-dash]\s*date)?
EduDateRangeRe ==
    ReCat(<<EduDateRe,
            ReOpt(ReCat(<<ReStar(ReSet(Whitespace)), ReSet(DashChars),
                          ReStar(ReSet(Whitespace)), EduDateRe>>))>>)

\* ^[-*|]\s* and \s*[-*|]\s*$, with U+2022 in the classes
LeadingSeparatorRe ==
    ReCat(<<ReBol, ReSet(BulletChars \cup {"|"}), ReStar(ReSet(Whitespace))>>)
TrailingSeparatorRe ==
    ReCat(<<ReStar(ReSet(Whitespace)), ReSet(BulletChars \cup {"|"}),
            ReStar(ReSet(Whitespace)), ReEol>>)

\* the pass with an empty line skipped, the entry being collected left open
SplitEducationLineKeepingOpen(line, entries, current_entry) ==
    IF line = <<>> THEN
        [entries |-> entries, current_entry |-> current_entry]
    ELSE IF Found(DegreeWordRe, line, TRUE) /\ current_entry # <<>> THEN
        [entries |-> Append(entries, JoinLines(current_entry)), current_entry |-> <<line>>]
    ELSE
        [entries |-> entries, current_entry |-> Append(current_entry, line)]

\* one pass of the loop of _split_education_entries, lines 420-435
SplitEducationLine(line, entries, current_entry) ==
    IF line = <<>> THEN
        [entries |-> CloseEntry(entries, current_entry), current_entry |-> <<>>]
    ELSE IF Found(DegreeWordRe, line, TRUE) /\ current_entry # <<>> THEN
        [entries |-> Append(entries, JoinLines(current_entry)), current_entry |-> <<line>>]
    ELSE
        [entries |-> entries, current_entry |-> Append(current_entry, line)]

\* the loop from line i on, and the closing of the last entry (lines 437-438)
RECURSIVE SplitEducationLoop(_, _, _)
SplitEducationLoop(lines, i, collected) ==
    IF i > Len(lines) THEN CloseEntry(collected.entries, collected.current_entry)
    ELSE SplitEducationLoop(lines, i + 1,
             SplitEducationLine(Strip(lines[i]), collected.entries, collected.current_entry))

\* SectionExtractor._split_education_entries
SplitEducationEntries(section_text) ==
    SplitEducationLoop(SplitLines(section_text), 1, [entries |-> <<>>, current_entry |-> <<>>])

\* match.group(0).strip() if match else None
StrippedGroupOrNone(m, line) ==
    IF m # None THEN Some(Strip(Group0(m[1], line))) ELSE None

\* the institution of lines 464-473: the first line without the degree, the
\* dates and the separators left at its ends
InstitutionOf(first_line, degree, dates) ==
    LET WithoutDegree(line) ==
            IF Truthy(degree) THEN Strip(RemoveAll(line, degree[1], 1)) ELSE line
        WithoutDates(line) ==
            IF Truthy(dates) THEN Strip(Sub(EduDateRangeRe, line, FALSE)) ELSE line
    IN  Sub(TrailingSeparatorRe,
            Sub(LeadingSeparatorRe, WithoutDates(WithoutDegree(first_line)), FALSE), FALSE)

\* SectionExtractor._parse_education_entry: None, or the Education
ParseEducationEntry(entry_text) ==
    LET Entry(lines, degree, dates) ==
            [degree |-> degree,
             institution |-> OrUnknown(InstitutionOf(lines[1], degree, dates)),
             dates |-> dates,
             location |-> None,
             details |-> IF Len(lines) > 1 THEN Some(JoinLines(Tail(lines))) ELSE None]
        FromLines(lines) ==
            IF lines = <<>> THEN None
            ELSE Some(Entry(lines,
                            StrippedGroupOrNone(Search(DegreeRe, lines[1], TRUE), lines[1]),
                            StrippedGroupOrNone(Search(EduDateRangeRe, lines[1], FALSE),
                                                lines[1])))
    IN  FromLines(NonEmptyOnly(MapSeq(Strip, SplitLines(entry_text))))

\* SectionExtractor.extract_education
ExtractEducation(t) ==
    LET ParseAll(entries) ==
            Flatten([i \in DOMAIN entries |-> ParseEducationEntry(entries[i])])
        FromSection(education_section) ==
            IF ~Truthy(education_section) THEN <<>>
            ELSE ParseAll(SplitEducationEntries(education_section[1]))
    IN  FromSection(ExtractSection(t, "education"))

----------------------------------------------------------------------------
(* app/parsers/text_parser.py                                               *)

\* TextParser.parse on a file whose content is raw_text
ParseResume(raw_text) ==
    [contact |-> ExtractContact(raw_text),
     summary |-> ExtractSummary(raw_text),
     experience |-> ExtractExperience(raw_text),
     skills |-> ExtractSkills(raw_text),
     education |-> ExtractEducation(raw_text),
     certifications |-> <<>>,
     languages |-> <<>>,
     language |-> Str("en"),
     raw_text |-> raw_text]

----------------------------------------------------------------------------
(* Bounded inputs of the match scorer                                       *)

MaxMust == 2
MaxSkills == 5

\* the contiguous sublists of pool of length at most n
SlicesUpTo(pool, n) ==
    {xs \in {SubSeq(pool, a, b) : a \in 1..Len(pool), b \in 0..Len(pool)} : Len(xs) <= n}

Pad(n) == [i \in 1..n |-> "x"]

MustPool == <<Str("py"), Str("Py"), Str("ml ops"), Str("sql"), Str("rust")>>
MustLists == SlicesUpTo(MustPool, MaxMust)
KeywordLists == {<<>>, <<Str("SQL"), Str("rust")>>}
NiceLists == {<<>>, <<Str("Go"), Str("acme")>>}
Titles == {<<>>, Str("Go Dev"), Str("Ops")}

SkillPool ==
    <<Str("Py"), Str("ml ops"), Str("sql"), Str("go"), Str("js"), Str("c"), Str("git")>>
SkillLists == {Take(SkillPool, n) : n \in 0..MaxSkills}

Summaries ==
    {None, Some(<<>>),
     Some(Str("uses SQL ") \o Pad(MinSummaryLen - 10)),
     Some(Str("uses sql ") \o Pad(MinSummaryLen - 9))}

Exp1 == [title |-> Str("ML Ops"), company |-> Str("Acme"),
         bullets |-> <<Str("Built Go APIs"), Str("SQL\ttuning")>>]
Exp2 == [title |-> Str("Unknown"), company |-> Str("Beta Inc"), bullets |-> <<>>]
ExperienceLists == {<<>>, <<Exp2, Exp1>>}

RawTexts == {Str("go dev\nacme"), Str("Senior go\tdevops")}

Resumes ==
    [skills : SkillLists, summary : Summaries, experience : ExperienceLists,
     raw_text : RawTexts]

Jobs ==
    [title : Titles, keywords : KeywordLists, must_have_keywords : MustLists,
     nice_to_have_keywords : NiceLists]

----------------------------------------------------------------------------
(* The match scorer as a state machine: one call of analyze_match per step  *)

Init ==
    /\ resume \in Resumes
    /\ job \in Jobs
    /\ analysis = None
    /\ threads = <<>>
    /\ frames = <<>>
    /\ usage = NewUsage
    /\ text = <<>>
    /\ parsed = None
    /\ calls = 0
    /\ request = None
    /\ result = None

\* ResumeMatcher.analyze_match(resume, job)
AnalyzeMatch ==
    /\ analysis = None
    /\ \E match \in AnalyzeMatchResults(resume, job) : analysis' = Some(match)
    /\ UNCHANGED <<resume, job, text, parsed, calls, request, result, threads, frames, usage>>

Next == AnalyzeMatch

Spec == Init /\ [][Next]_vars

----------------------------------------------------------------------------
(* The match scorer called again on a revised resume: after a call of       *)
(* analyze_match, one keyword source is added to the resume or removed from *)
(* it, raw_text and the job are kept, and analyze_match is called on the    *)
(* result.  request holds the revision and the score of the call before.    *)

MaxRevisedSkills == 2

RevisedSkillPool == {Str("Py"), Str("sql"), Str("c")}
RevisedSummary == Some(Str("uses SQL ") \o Pad(MinSummaryLen - 10))
RevisedJobs ==
    [title : {Str("Go Dev")}, keywords : KeywordLists,
     must_have_keywords : {<<>>, <<Str("py")>>, <<Str("py"), Str("ml ops")>>},
     nice_to_have_keywords : {<<>>}]

InitRevise ==
    /\ resume \in [skills : {<<>>}, summary : {None}, experience : {<<>>},
                   raw_text : {Str("go dev\nacme")}]
    /\ job \in RevisedJobs
    /\ analysis = None
    /\ request = None
    /\ result = None
    /\ text = <<>>
    /\ parsed = None
    /\ calls = 0
    /\ threads = <<>>
    /\ frames = <<>>
    /\ usage = NewUsage

\* the resume with one more keyword source, and with one less
WithMore(r) ==
    {[r EXCEPT !.skills = Append(@, skill)] :
        skill \in {k \in RevisedSkillPool : Len(r.skills) < MaxRevisedSkills}}
    \cup {[r EXCEPT !.summary = RevisedSummary] : none \in {k \in {1} : r.summary = None}}
    \cup {[r EXCEPT !.experience = Append(@, Exp1)] : none \in {k \in {1} : r.experience = <<>>}}
WithLess(r) ==
    {[r EXCEPT !.skills = SubSeq(@, 1, k - 1) \o SubSeq(@, k + 1, Len(@))] : k \in DOMAIN r.skills}
    \cup {[r EXCEPT !.summary = None] : none \in {k \in {1} : r.summary # None}}
    \cup {[r EXCEPT !.experience = <<>>] : none \in {k \in {1} : r.experience # <<>>}}

\* ResumeMatcher.analyze_match(revised, job)
AnalyzeRevised(op, revised) ==
    /\ resume' = revised
    /\ request' = Some([op |-> op, ats_score |-> analysis[1].ats_score])
    /\ \E match \in AnalyzeMatchResults(revised, job) : analysis' = Some(match)
    /\ UNCHANGED <<job, text, parsed, calls, result, threads, frames, usage>>

AnalyzeWithMore ==
    /\ analysis # None
    /\ \E revised \in WithMore(resume) : AnalyzeRevised("more", revised)

AnalyzeWithLess ==
    /\ analysis # None
    /\ \E revised \in WithLess(resume) : AnalyzeRevised("less", revised)

NextRevise == AnalyzeMatch \/ AnalyzeWithMore \/ AnalyzeWithLess

SpecRevise == InitRevise /\ [][NextRevise]_vars

----------------------------------------------------------------------------
(* app/utils/token_tracker.py and the call of LLMClient.generate that feeds *)
(* it: the counters of the one TokenTracker of the process; result is the   *)
(* summary when the last call was get_summary                               *)

MaxTokens == 2
MaxUsage == 4

\* TokenTracker.add_usage: the counters after the call
AddUsage(counters, prompt_tokens, completion_tokens, total_tokens, cached) ==
    IF cached THEN
        [counters EXCEPT !.cached_responses = @ + 1]
    ELSE IF total_tokens # 0 THEN
        [counters EXCEPT !.total_tokens = @ + total_tokens]
    ELSE
        [counters EXCEPT !.prompt_tokens = @ + prompt_tokens,
                         !.completion_tokens = @ + completion_tokens,
                         !.total_tokens = @ + prompt_tokens + completion_tokens]

\* the counters stay within the limit of the model
WithinUsage(counters) ==
    /\ counters.total_tokens <= MaxUsage
    /\ counters.cached_responses <= MaxUsage

InitTokens ==
    /\ usage = NewUsage
    /\ request = None
    /\ result = None
    /\ text = <<>>
    /\ parsed = None
    /\ calls = 0
    /\ resume = None
    /\ job = None
    /\ analysis = None
    /\ threads = <<>>
    /\ frames = <<>>

\* token_tracker.add_usage(prompt_tokens, completion_tokens, total_tokens, cached)
AddUsageCall ==
    /\ \E prompt_tokens \in 0..MaxTokens, completion_tokens \in 0..MaxTokens, cached \in BOOLEAN :
           \E total_tokens \in {0, prompt_tokens + completion_tokens} :
               /\ usage' = AddUsage(usage, prompt_tokens, completion_tokens, total_tokens, cached)
               /\ request' = Some([op |-> "add_usage", cached |-> cached])
    /\ WithinUsage(usage')
    /\ result' = None
    /\ UNCHANGED <<text, parsed, calls, resume, job, analysis, threads, frames>>

\* LLMClient.generate, lines 88-96: the provider reports no usage, or the
\* prompt and completion tokens and their total; the text it returns is
\* left out
Generate ==
    /\ \E reported \in {None} \cup {Some([prompt_tokens |-> p, completion_tokens |-> c,
                                          total_tokens |-> p + c]) :
                                        p \in 0..MaxTokens, c \in 0..MaxTokens} :
           usage' = IF reported # None
                    THEN AddUsage(usage, reported[1].prompt_tokens, reported[1].completion_tokens,
                                  reported[1].total_tokens, FALSE)
                    ELSE usage
    /\ request' = Some([op |-> "generate", cached |-> FALSE])
    /\ WithinUsage(usage')
    /\ result' = None
    /\ UNCHANGED <<text, parsed, calls, resume, job, analysis, threads, frames>>

\* token_tracker.reset()
Reset ==
    /\ usage' = NewUsage
    /\ request' = Some([op |-> "reset", cached |-> FALSE])
    /\ result' = None
    /\ UNCHANGED <<text, parsed, calls, resume, job, analysis, threads, frames>>

\* token_tracker.get_summary(), as the summary of run_integration_tests reads it
GetSummary ==
    /\ request' = Some([op |-> "get_summary", cached |-> FALSE])
    /\ result' = Some(usage)
    /\ UNCHANGED <<usage, text, parsed, calls, resume, job, analysis, threads, frames>>

NextTokens == AddUsageCall \/ Generate \/ Reset \/ GetSummary

SpecTokens == InitTokens /\ [][NextTokens]_vars

----------------------------------------------------------------------------
(* Bounded inputs of the resume parser: texts assembled from blocks         *)

MaxParses == 2

TopBlocks ==
    {<<>>,
     Str(" \t"),
     Str("Jane Smith\njane@x.io"),
     Str("CV\n+1 555-123-4567\ngithub.com/jd"),
     Str("John Q Doe\nLinkedIn.com/in/j-doe")}

SummaryBlocks == {<<>>, Str("Summary\nBuilds APIs.")}

SkillsBlocks ==
    {<<>>,
     Str("Skills\nPython, python, SQL"),
     Cyr(<<"n", "a", "v", "y", "k", "i">>) \o Str("\n- Go | go\n2) Rust")}

ExperienceBlocks == {<<>>, Str("Experience\nDev\nAcme 2019 - 2021\n- Built APIs")}

EducationBlocks == {<<>>, Str("Education\nMIT | Master CS 2014")}

\* the blocks that are present, one after the other
Assemble(blocks) ==
    IF \A i \in DOMAIN blocks : blocks[i] = <<>> THEN <<>>
    ELSE IF blocks[1] = Str(" \t") /\ \A i \in 2..Len(blocks) : blocks[i] = <<>>
         THEN blocks[1]
         ELSE JoinLines(NonEmptyOnly(blocks))

Texts ==
    {Assemble(<<top, summary, skills, experience, education>>) :
        top \in TopBlocks, summary \in SummaryBlocks, skills \in SkillsBlocks,
        experience \in ExperienceBlocks, education \in EducationBlocks}

----------------------------------------------------------------------------
(* The resume parser as a state machine: one call of TextParser.parse per   *)
(* step, on the file whose content is text                                  *)

InitParse ==
    /\ text \in Texts
    /\ parsed = None
    /\ calls = 0
    /\ resume = None
    /\ job = None
    /\ analysis = None
    /\ threads = <<>>
    /\ frames = <<>>
    /\ usage = NewUsage
    /\ request = None
    /\ result = None

\* TextParser.parse(file_path)
Parse ==
    /\ calls < MaxParses
    /\ parsed' = Some(ParseResume(text))
    /\ calls' = calls + 1
    /\ UNCHANGED <<text, resume, job, analysis, request, result, threads, frames, usage>>

NextParse == Parse

SpecParse == InitParse /\ [][NextParse]_vars

----------------------------------------------------------------------------
(* extract_contact on its own: texts of a few lines taken from a pool,      *)
(* after no, nine or ten blank lines                                        *)

MaxContactLines == 2

ContactLinePool ==
    {Str("Jane Smith"), Str("+1 555 123 4567"), Str("Ann jane.smith@example.com"),
     Str("Contact Ann Lee"), Str("- Ann Lee"), Str("Ann Lee: dev"), Str("Ann B C D E"),
     Str(" Bob  Ray "), Str("Ann Lee 2nd")}

\* every sequence of at most n elements of S
SeqsUpTo(S, n) == UNION {[1..k -> S] : k \in 0..n}

ExampleContactText == Str("Jane Smith\njane.smith@example.com\n+1 555 123 4567")

BlankLines(n) == [i \in 1..n |-> <<>>]

ContactTexts ==
    {JoinLines(BlankLines(blank) \o lines) :
        blank \in {0, 9, 10}, lines \in SeqsUpTo(ContactLinePool, MaxContactLines)}
    \cup {ExampleContactText, ExampleContactText \o Str("\nSkills\nGo")}

InitContact ==
    /\ text \in ContactTexts
    /\ request = None
    /\ result = None
    /\ parsed = None
    /\ calls = 0
    /\ resume = None
    /\ job = None
    /\ analysis = None
    /\ threads = <<>>
    /\ frames = <<>>
    /\ usage = NewUsage

\* SectionExtractor.extract_contact(text)
ExtractContactCall ==
    /\ result = None
    /\ request' = Some([op |-> "extract_contact"])
    /\ result' = Some(ExtractContact(text))
    /\ UNCHANGED <<text, parsed, calls, resume, job, analysis, threads, frames, usage>>

NextContact == ExtractContactCall

SpecContact == InitContact /\ [][NextContact]_vars

----------------------------------------------------------------------------
(* _split_experience_entries and _parse_experience_entry on their own:      *)
(* texts of one or two blocks of a title, a company, a date line and        *)
(* bullets, separated by an empty line                                      *)

MaxBullets == 2

TitlePool == {Str("Software Engineer"), Str("Junior Dev")}
CompanyPool == {Str("Acme Corp"), Str("Beta Inc")}
DateLinePool == {Str("2020 - Present"), Str("2018 - 2020"), Str("2019")}
\* a bullet is a marker and the words after it
BulletPool ==
    {[mark |-> Str("- "), body |-> Str("Built APIs")],
     [mark |-> <<"*">>, body |-> Str("Led team")],
     [mark |-> Str("2) "), body |-> Str("Wrote tests")]}

ExperienceBlockPool ==
    [title : TitlePool, company : CompanyPool, dates : DateLinePool,
     bullets : SeqsUpTo(BulletPool, MaxBullets)]

\* the blocks a text may end with
LastBlockPool ==
    {[title |-> Str("Junior Dev"), company |-> Str("Beta Inc"), dates |-> Str("2018 - 2020"),
      bullets |-> <<[mark |-> Str("- "), body |-> Str("Wrote tests")]>>],
     [title |-> Str("Software Engineer"), company |-> Str("Acme Corp"), dates |-> Str("2019"),
      bullets |-> <<>>]}

ExperienceBlockSeqs ==
    {<<b>> : b \in ExperienceBlockPool}
    \cup {<<b, c>> : b \in ExperienceBlockPool, c \in LastBlockPool}

\* the lines of a block, and the text of blocks separated by an empty line
BlockLines(b) ==
    <<b.title, b.company, b.dates>>
    \o [k \in DOMAIN b.bullets |-> b.bullets[k].mark \o b.bullets[k].body]
RenderBlocks(blocks) ==
    JoinLines(Flatten([k \in DOMAIN blocks |->
                          IF k = 1 THEN BlockLines(blocks[k])
                          ELSE <<<<>>>> \o BlockLines(blocks[k])]))

ExampleExperienceText ==
    Str("Software Engineer\nAcme Corp\n2020 - Present\n- Built APIs\n- Led team\n\nJunior Dev\nBeta Inc\n2018 - 2020\n- Wrote tests")

ExperienceTexts ==
    {RenderBlocks(blocks) : blocks \in ExperienceBlockSeqs} \cup {ExampleExperienceText}

InitExperience ==
    /\ text \in ExperienceTexts
    /\ request = None
    /\ result = None
    /\ parsed = None
    /\ calls = 0
    /\ resume = None
    /\ job = None
    /\ analysis = None
    /\ threads = <<>>
    /\ frames = <<>>
    /\ usage = NewUsage

\* the entries of _split_experience_entries(text), each given to
\* _parse_experience_entry, as extract_experience does with its section
SegmentAndParseExperience ==
    /\ result = None
    /\ request' = Some([op |-> "experience_entries"])
    /\ result' = Some(ParseExperienceEntries(SplitExperienceEntries(text)))
    /\ UNCHANGED <<text, parsed, calls, resume, job, analysis, threads, frames, usage>>

NextExperience == SegmentAndParseExperience

SpecExperience == InitExperience /\ [][NextExperience]_vars

----------------------------------------------------------------------------
(* _split_experience_entries on its own, one pass of its loop per step:     *)
(* texts of no or one header line, no or three opening lines and a few      *)
(* lines taken from a pool                                                  *)

MaxSegmentLines == 2

\* no header, and the header phrases of the experience section
SegmentHeaderPool ==
    {<<>>, <<Str("Experience")>>, <<Str("WORK EXPERIENCE")>>, <<Str("Employment")>>,
     <<Str("Work History")>>, <<Str("Professional Experience")>>, <<Str("Career History")>>,
     <<Cyr(<<"o", "p", "y", "t", " ", "r", "a", "b", "o", "t", "y">>)>>,
     <<Cyr(<<"t", "r", "u", "d", "o", "v", "o", "j", " ", "o", "p", "y", "t">>)>>,
     <<Cyr(<<"m", "e", "s", "t", "a", " ", "r", "a", "b", "o", "t", "y">>)>>}

SegmentOpeningPool == {<<>>, <<Str("Dev"), Str("Acme Corp"), Str("2020 - Present")>>}

SegmentLinePool ==
    {Str("Dev"), Str("Wrapped text"), Str("QA Lead 2019"), Str("- Built APIs"),
     Str("1. Led team"), Str(" "), <<>>}

SegmentTexts ==
    {JoinLines(header \o opening \o lines) :
        header \in SegmentHeaderPool, opening \in SegmentOpeningPool,
        lines \in SeqsUpTo(SegmentLinePool, MaxSegmentLines)}

InitSegment ==
    /\ text \in SegmentTexts
    /\ request = None
    /\ result = None
    /\ parsed = None
    /\ calls = 0
    /\ resume = None
    /\ job = None
    /\ analysis = None
    /\ threads = <<>>
    /\ frames = <<>>
    /\ usage = NewUsage

\* lines 285-291: the call, its local variables before the loop
SegmentCall ==
    /\ request = None
    /\ request' = Some([op |-> "_split_experience_entries",
                        lines |-> DropExperienceHeader(SplitLines(text)), i |-> 1,
                        entries |-> <<>>, current_entry |-> <<>>])
    /\ UNCHANGED <<text, result, parsed, calls, resume, job, analysis, threads, frames, usage>>

\* lines 293-325: one pass of the loop, on line i
SegmentLine ==
    /\ request # None
    /\ result = None
    /\ request[1].i <= Len(request[1].lines)
    /\ LET Pass(line, line_stripped) ==
               SplitExperienceLine(line, line_stripped, IsBullet(line_stripped),
                                   Found(YearRe, line_stripped, FALSE),
                                   request[1].entries, request[1].current_entry)
           After(collected) ==
               [request[1] EXCEPT !.i = @ + 1, !.entries = collected.entries,
                                  !.current_entry = collected.current_entry]
       IN  request' = Some(After(Pass(request[1].lines[request[1].i],
                                      Strip(request[1].lines[request[1].i]))))
    /\ UNCHANGED <<text, result, parsed, calls, resume, job, analysis, threads, frames, usage>>

\* lines 327-330: the last entry is closed and the entries are returned
SegmentReturn ==
    /\ request # None
    /\ result = None
    /\ request[1].i > Len(request[1].lines)
    /\ result' = Some(CloseEntry(request[1].entries, request[1].current_entry))
    /\ UNCHANGED <<text, request, parsed, calls, resume, job, analysis, threads, frames, usage>>

NextSegment == SegmentCall \/ SegmentLine \/ SegmentReturn

SpecSegment == InitSegment /\ [][NextSegment]_vars

----------------------------------------------------------------------------
(* _extract_section on its own: texts of a few lines taken from a pool of   *)
(* headers, prose and an empty line, and every section name                 *)

MaxSectionLines == 3

SectionLinePool ==
    {Str("Skills"), Str("Experience"), Str(" Summary "), Str("Technical Skills"),
     Str("I have experience in management"), Str("Experience in managing teams"),
     Str("Profile: skills and experience"), <<>>}

SectionTexts == {JoinLines(lines) : lines \in SeqsUpTo(SectionLinePool, MaxSectionLines)}

InitSection ==
    /\ text \in SectionTexts
    /\ request = None
    /\ result = None
    /\ parsed = None
    /\ calls = 0
    /\ resume = None
    /\ job = None
    /\ analysis = None
    /\ threads = <<>>
    /\ frames = <<>>
    /\ usage = NewUsage

\* SectionExtractor._extract_section(text, section_name)
ExtractSectionCall ==
    /\ result = None
    /\ \E k \in DOMAIN SectionNames :
           /\ request' = Some([op |-> "_extract_section", section_name |-> SectionNames[k]])
           /\ result' = Some(ExtractSection(text, SectionNames[k]))
    /\ UNCHANGED <<text, parsed, calls, resume, job, analysis, threads, frames, usage>>

NextSection == ExtractSectionCall

SpecSection == InitSection /\ [][NextSection]_vars

----------------------------------------------------------------------------
(* _parse_experience_entry and _parse_education_entry on their own: entry   *)
(* texts of a few lines taken from a pool                                   *)

MaxEntryLines == 2

EntryLinePool ==
    {Str("Dev"), Str("Acme 2019 - 2021"), Str("2020 - Present"), Str("- Built APIs"),
     Str("MIT | Master CS 2014"), Str("Bachelor of Science 2015"), Str("- |"),
     Str("MIT -"), Str(" "), <<>>}

EntryTexts == {JoinLines(lines) : lines \in SeqsUpTo(EntryLinePool, MaxEntryLines)}

InitEntry ==
    /\ text \in EntryTexts
    /\ request = None
    /\ result = None
    /\ parsed = None
    /\ calls = 0
    /\ resume = None
    /\ job = None
    /\ analysis = None
    /\ threads = <<>>
    /\ frames = <<>>
    /\ usage = NewUsage

\* SectionExtractor._parse_experience_entry(text)
ParseExperienceEntryCall ==
    /\ result = None
    /\ request' = Some([op |-> "_parse_experience_entry"])
    /\ result' = Some(ParseExperienceEntry(text))
    /\ UNCHANGED <<text, parsed, calls, resume, job, analysis, threads, frames, usage>>

\* SectionExtractor._parse_education_entry(text)
ParseEducationEntryCall ==
    /\ result = None
    /\ request' = Some([op |-> "_parse_education_entry"])
    /\ result' = Some(ParseEducationEntry(text))
    /\ UNCHANGED <<text, parsed, calls, resume, job, analysis, threads, frames, usage>>

NextEntry == ParseExperienceEntryCall \/ ParseEducationEntryCall

SpecEntry == InitEntry /\ [][NextEntry]_vars

----------------------------------------------------------------------------
(* _parse_experience_entry on entries of up to three lines: titles, dated   *)
(* lines, bullets and an empty line                                         *)

MaxBlockLines == 3

BlockLinePool ==
    {Str("Dev"), Str("Acme 2019 - 2021"), Str("2020 ") \o <<ENDASH>> \o Str(" present"),
     Str("Beta 2017-2018x"), Str("- Built APIs 2018"), Str("1) Led team"), <<>>}

BlockTexts == {JoinLines(lines) : lines \in SeqsUpTo(BlockLinePool, MaxBlockLines)}

InitBlock ==
    /\ text \in BlockTexts
    /\ request = None
    /\ result = None
    /\ parsed = None
    /\ calls = 0
    /\ resume = None
    /\ job = None
    /\ analysis = None
    /\ threads = <<>>
    /\ frames = <<>>
    /\ usage = NewUsage

NextBlock == ParseExperienceEntryCall

SpecBlock == InitBlock /\ [][NextBlock]_vars

----------------------------------------------------------------------------
(* _split_education_entries, _parse_education_entry and extract_education:  *)
(* texts of no or one header line and a few lines taken from a pool         *)

MaxEducationLines == 3

EducationHeaderPool == {<<>>, <<Str("Education")>>}

EducationLinePool ==
    {Str("MIT"), Str("Bachelor of Science 2015"), Str("Master CS, MIT 2014"), Str("GPA 3.9"),
     Cyr(<<"m", "a", "g", "i", "s", "t", "r">>) \o Str(" 2012"), <<>>}

EducationTexts ==
    {JoinLines(header \o lines) :
        header \in EducationHeaderPool, lines \in SeqsUpTo(EducationLinePool, MaxEducationLines)}

InitEducation ==
    /\ text \in EducationTexts
    /\ request = None
    /\ result = None
    /\ parsed = None
    /\ calls = 0
    /\ resume = None
    /\ job = None
    /\ analysis = None
    /\ threads = <<>>
    /\ frames = <<>>
    /\ usage = NewUsage

\* the entries of _split_education_entries(text) and, for each, the result
\* of _parse_education_entry, as extract_education does with its section
SegmentAndParseEducation ==
    /\ result = None
    /\ request' = Some([op |-> "education_entries"])
    /\ LET Parsed(entries) ==
               [entries |-> entries,
                educations |-> [k \in DOMAIN entries |-> ParseEducationEntry(entries[k])]]
       IN  result' = Some(Parsed(SplitEducationEntries(text)))
    /\ UNCHANGED <<text, parsed, calls, resume, job, analysis, threads, frames, usage>>

\* SectionExtractor.extract_education(text)
ExtractEducationCall ==
    /\ result = None
    /\ request' = Some([op |-> "extract_education"])
    /\ result' = Some(ExtractEducation(text))
    /\ UNCHANGED <<text, parsed, calls, resume, job, analysis, threads, frames, usage>>

NextEducation == SegmentAndParseEducation \/ ExtractEducationCall

SpecEducation == InitEducation /\ [][NextEducation]_vars

----------------------------------------------------------------------------
(* app/analyzers/language_detector.py                                       *)

\* "\u0400" <= char <= "\u04FF", and char.isalpha()
\* "\u0400" <= char <= "\u04FF", and char.isalpha(): the thousands sign is
\* of the block and is no letter
CyrillicChars == CyrLower \cup CyrUpper \cup {THOUSANDS}
AlphaChars == Letters \cup CyrLower \cup CyrUpper

\* sum(1 for char in text if char in S)
CountChars(t, S) == Cardinality({i \in DOMAIN t : t[i] \in S})

\* the heuristic with 'ru' from a ratio of 0.3 on
HeuristicDetectFromThreeTenths(t) ==
    LET Ratio(cyrillic_count, total_chars) ==
            IF total_chars = 0 THEN Str("en")
            ELSE IF RatLe(Rat(3, 10), Rat(cyrillic_count, total_chars)) THEN Str("ru")
            ELSE Str("en")
    IN  IF t = <<>> THEN Str("en")
        ELSE Ratio(CountChars(t, CyrillicChars), CountChars(t, AlphaChars))

\* LanguageDetector._heuristic_detect; the ratio is compared as a fraction
HeuristicDetect(t) ==
    LET Ratio(cyrillic_count, total_chars) ==
            IF total_chars = 0 THEN Str("en")
            ELSE IF RatLe(Rat(cyrillic_count, total_chars), Rat(3, 10)) THEN Str("en")
            ELSE Str("ru")
    IN  IF t = <<>> THEN Str("en")
        ELSE Ratio(CountChars(t, CyrillicChars), CountChars(t, AlphaChars))

\* the code langdetect gave, returned as it is unless Russian, Ukrainian or Belarusian
MapLanguageCodeKeepingOthers(lang_code) ==
    IF lang_code \in {Str("ru"), Str("uk"), Str("be")} THEN Str("ru") ELSE lang_code

\* lines 42-48: the code returned for the code langdetect gave
MapLanguageCode(lang_code) ==
    IF lang_code \in {Str("ru"), Str("uk"), Str("be")} THEN Str("ru")
    ELSE IF lang_code \in {Str("en")} THEN Str("en")
    ELSE Str("en")

MinDetectLen == 10

\* LanguageDetector.detect_language.  installed: langdetect was imported;
\* detected: what detect(text) does, the code it returns or, when it raises
\* LangDetectException, None
DetectLanguage(t, installed, detected) ==
    IF ~installed THEN HeuristicDetect(t)
    ELSE IF t = <<>> \/ Len(Strip(t)) < MinDetectLen THEN Str("en")
    ELSE IF detected # None THEN MapLanguageCode(detected[1])
    ELSE HeuristicDetect(t)

\* what detect(text) can do: return an ISO 639-1 code, or raise
DetectOutcomes ==
    {Some(Str(code)) : code \in {"ru", "uk", "be", "en", "de", "zh-cn"}} \cup {None}

MaxLangWords == 2

LangWordPool ==
    {Str("hello"), Str("12345"), Cyr(<<"p", "r", "i", "v", "e", "t">>), Cyr(<<"m", "i", "r">>),
     Str("Go, Rust, SQL"), Str("letters"), <<THOUSANDS>>}

LangTexts ==
    {Join(<<" ">>, words) : words \in SeqsUpTo(LangWordPool, MaxLangWords)} \cup {Str("  \n ")}

InitLang ==
    /\ text \in LangTexts
    /\ request = None
    /\ result = None
    /\ parsed = None
    /\ calls = 0
    /\ resume = None
    /\ job = None
    /\ analysis = None
    /\ threads = <<>>
    /\ frames = <<>>
    /\ usage = NewUsage

\* LanguageDetector.detect_language(text), in a process where langdetect is
\* installed or not and detect does what it does
DetectLanguageCall ==
    /\ result = None
    /\ \E installed \in BOOLEAN, detected \in DetectOutcomes :
           /\ request' = Some([op |-> "detect_language", installed |-> installed,
                                detected |-> detected])
           /\ result' = Some(DetectLanguage(text, installed, detected))
    /\ UNCHANGED <<text, parsed, calls, resume, job, analysis, threads, frames, usage>>

\* LanguageDetector._heuristic_detect(text)
HeuristicDetectCall ==
    /\ result = None
    /\ request' = Some([op |-> "_heuristic_detect"])
    /\ result' = Some(HeuristicDetect(text))
    /\ UNCHANGED <<text, parsed, calls, resume, job, analysis, threads, frames, usage>>

NextLang == DetectLanguageCall \/ HeuristicDetectCall

SpecLang == InitLang /\ [][NextLang]_vars

----------------------------------------------------------------------------
(* extract_skills on its own: a skills header and a few lines from a pool   *)

MaxSkillLines == 2

SkillLinePool ==
    {Str("Go, Rust"), Str("- Python | SQL"), Str("2) Rust"), Str("a, b | c"),
     <<BULLET>> \o Str(" Docker"), Str(" , Go ,, "), Str("* 1. x|"), Str("Skills"), <<>>}

SkillTexts ==
    {JoinLines(<<Str("Skills")>> \o lines) : lines \in SeqsUpTo(SkillLinePool, MaxSkillLines)}

InitSkills ==
    /\ text \in SkillTexts
    /\ request = None
    /\ result = None
    /\ parsed = None
    /\ calls = 0
    /\ resume = None
    /\ job = None
    /\ analysis = None
    /\ threads = <<>>
    /\ frames = <<>>
    /\ usage = NewUsage

\* SectionExtractor.extract_skills(text)
ExtractSkillsCall ==
    /\ result = None
    /\ request' = Some([op |-> "extract_skills"])
    /\ result' = Some(ExtractSkills(text))
    /\ UNCHANGED <<text, parsed, calls, resume, job, analysis, threads, frames, usage>>

NextSkills == ExtractSkillsCall

SpecSkills == InitSkills /\ [][NextSkills]_vars

----------------------------------------------------------------------------
(* Concurrent calls on one SectionExtractor and one ResumeMatcher: every    *)
(* thread makes one call, a step of a call is a statement or a loop pass,   *)
(* and the steps of the threads interleave.  Neither object has an          *)
(* attribute that a call assigns; the local variables of a call are in the  *)
(* frame of the call.                                                       *)

NumThreads == 2

ThreadInputs ==
    {[text |-> Str("Summary\nBuilds APIs.\nSkills\nGo, Rust\nSQL"),
      resume |-> [skills |-> Take(SkillPool, 3), summary |-> None,
                  experience |-> <<Exp2, Exp1>>, raw_text |-> Str("go dev\nacme")],
      job |-> [title |-> Str("Go Dev"), keywords |-> <<Str("SQL"), Str("rust")>>,
               must_have_keywords |-> <<Str("py"), Str("ml ops")>>,
               nice_to_have_keywords |-> <<>>]],
     [text |-> Str("Skills\n- Python | SQL\n\nEducation\nMIT"),
      resume |-> [skills |-> <<>>, summary |-> Some(Str("uses sql")),
                  experience |-> <<>>, raw_text |-> Str("Senior go\tdevops")],
      job |-> [title |-> Str("Ops"), keywords |-> <<>>,
               must_have_keywords |-> <<Str("sql"), Str("rust")>>,
               nice_to_have_keywords |-> <<Str("Go"), Str("acme")>>]]}

ThreadOps == {"extract_summary", "extract_skills", "analyze_match"}

\* a call that has not started: the operation, its arguments, the position
\* in its code and the value returned
ThreadCalls ==
    {[op |-> op, text |-> in.text, resume |-> in.resume, job |-> in.job,
      pc |-> "call", ret |-> None] : op \in ThreadOps, in \in ThreadInputs}

\* the local variables of a call before its first statement
EmptyFrame ==
    [section |-> None, lines |-> <<>>, i |-> 1, skills |-> <<>>,
     resume_keywords |-> <<>>, resume_keywords_set |-> {}, ats_score |-> Float(0)]

\* all calls keeping their local variables in one place
FrameOnInstance(t) == 1

\* the frame of the call of thread t: a call has a frame of its own
FrameOf(t) == t

InitThreads ==
    /\ threads \in [1..NumThreads -> ThreadCalls]
    /\ frames = [t \in 1..NumThreads |-> EmptyFrame]
    /\ usage = NewUsage
    /\ text = <<>>
    /\ request = None
    /\ result = None
    /\ parsed = None
    /\ calls = 0
    /\ resume = None
    /\ job = None
    /\ analysis = None

\* thread t is at position pc of operation op
At(t, op, pc) == threads[t].op = op /\ threads[t].pc = pc

Goto(t, pc) == threads' = [threads EXCEPT ![t].pc = pc]
Return(t, value) == threads' = [threads EXCEPT ![t].pc = "done", ![t].ret = Some(value)]

ThreadsOnly == UNCHANGED <<text, request, result, parsed, calls, resume, job, analysis, usage>>

\* extract_summary, line 136: summary_section = self._extract_section(text, "summary")
SummaryLocate(t) ==
    /\ At(t, "extract_summary", "call")
    /\ frames' = [frames EXCEPT ![FrameOf(t)].section = ExtractSection(threads[t].text, "summary")]
    /\ Goto(t, "located")
    /\ ThreadsOnly

\* extract_summary, lines 137-145
SummaryReturn(t) ==
    /\ At(t, "extract_summary", "located")
    /\ LET Summary(summary_section) ==
               IF Truthy(summary_section)
               THEN NoneIfEmpty(Strip(JoinLines(Tail(SplitLines(summary_section[1])))))
               ELSE None
       IN  Return(t, Summary(frames[FrameOf(t)].section))
    /\ UNCHANGED frames
    /\ ThreadsOnly

\* extract_skills, lines 184-189
SkillsLocate(t) ==
    /\ At(t, "extract_skills", "call")
    /\ LET Located(skills_section) ==
               IF ~Truthy(skills_section)
               THEN /\ Return(t, <<>>)
                    /\ frames' = [frames EXCEPT ![FrameOf(t)].section = skills_section]
               ELSE /\ Goto(t, "loop")
                    /\ frames' = [frames EXCEPT
                                     ![FrameOf(t)].section = skills_section,
                                     ![FrameOf(t)].lines = Tail(SplitLines(skills_section[1])),
                                     ![FrameOf(t)].i = 1,
                                     ![FrameOf(t)].skills = <<>>]
       IN  Located(ExtractSection(threads[t].text, "skills"))
    /\ ThreadsOnly

\* extract_skills, one pass of the loop of lines 191-210
SkillsLine(t) ==
    /\ At(t, "extract_skills", "loop")
    /\ frames[FrameOf(t)].i <= Len(frames[FrameOf(t)].lines)
    /\ LET Pass(frame) ==
               [frame EXCEPT !.skills = frame.skills \o SkillItems(frame.lines[frame.i]),
                             !.i = frame.i + 1]
       IN  frames' = [frames EXCEPT ![FrameOf(t)] = Pass(frames[FrameOf(t)])]
    /\ UNCHANGED threads
    /\ ThreadsOnly

\* extract_skills, lines 213-214
SkillsReturn(t) ==
    /\ At(t, "extract_skills", "loop")
    /\ frames[FrameOf(t)].i > Len(frames[FrameOf(t)].lines)
    /\ Return(t, DictFromKeys(NonEmptyOnly(MapSeq(Strip, frames[FrameOf(t)].skills)), {}))
    /\ UNCHANGED frames
    /\ ThreadsOnly

\* analyze_match, line 29
MatchKeywords(t) ==
    /\ At(t, "analyze_match", "call")
    /\ frames' = [frames EXCEPT
                     ![FrameOf(t)].resume_keywords = ExtractResumeKeywords(threads[t].resume)]
    /\ Goto(t, "keywords")
    /\ ThreadsOnly

\* analyze_match, lines 32-56
MatchScore(t) ==
    /\ At(t, "analyze_match", "keywords")
    /\ LET Scored(frame, resume_keywords_set) ==
               [frame EXCEPT
                  !.resume_keywords_set = resume_keywords_set,
                  !.ats_score = ComputeAtsScore(resume_keywords_set,
                                                JobKeywordsLower(threads[t].job),
                                                MustHaveLower(threads[t].job),
                                                threads[t].resume, threads[t].job)]
       IN  frames' = [frames EXCEPT
                        ![FrameOf(t)] = Scored(frames[FrameOf(t)],
                                               LowerSet(Range(frames[FrameOf(t)].resume_keywords)))]
    /\ Goto(t, "scored")
    /\ ThreadsOnly

\* analyze_match, lines 59-68
MatchReturn(t) ==
    /\ At(t, "analyze_match", "scored")
    /\ LET Results(frame, must_have_lower, nice_to_have_lower) ==
               {[ats_score |-> frame.ats_score,
                 keyword_overlap |-> ov,
                 missing_keywords |-> mk,
                 recommendations |-> GenerateRecommendations(ml, nl, threads[t].resume)] :
                   ov \in Orderings(frame.resume_keywords_set
                                      \cap JobKeywordsLower(threads[t].job)),
                   mk \in Orderings((must_have_lower \cup nice_to_have_lower)
                                      \ frame.resume_keywords_set),
                   ml \in Orderings(must_have_lower \ frame.resume_keywords_set),
                   nl \in Orderings(nice_to_have_lower \ frame.resume_keywords_set)}
       IN  \E match \in Results(frames[FrameOf(t)], MustHaveLower(threads[t].job),
                                  NiceToHaveLower(threads[t].job)) :
               Return(t, match)
    /\ UNCHANGED frames
    /\ ThreadsOnly

NextThreads ==
    \E t \in 1..NumThreads :
        \/ SummaryLocate(t)
        \/ SummaryReturn(t)
        \/ SkillsLocate(t)
        \/ SkillsLine(t)
        \/ SkillsReturn(t)
        \/ MatchKeywords(t)
        \/ MatchScore(t)
        \/ MatchReturn(t)

SpecThreads == InitThreads /\ [][NextThreads]_vars

----------------------------------------------------------------------------
(* Properties of the match scorer                                           *)

Analysed == analysis # None
Score == analysis[1].ats_score
AllListsEmpty ==
    /\ job.keywords = <<>>
    /\ job.must_have_keywords = <<>>
    /\ job.nice_to_have_keywords = <<>>

\* C1: for every resume and job, analyze_match returns 0 <= ats_score <= 100.
C1_ScoreInRange ==
    Analysed => RatLe(Float(0), Score) /\ RatLe(Score, Float(100))

C1_Witness ==
    /\ Analysed
    /\ JobKeywordsLower(job) # {}
    /\ Score = Float(100)

\* C2: when job.keywords, job.must_have_keywords and job.nice_to_have_keywords
\* are all empty, ats_score is exactly 50.0 whatever the resume and the title.
C2_EmptyJobKeywordsGiveFifty ==
    (Analysed /\ AllListsEmpty) => Score = Float(50)

C2_Witness ==
    /\ Analysed
    /\ AllListsEmpty
    /\ job.title # <<>>
    /\ Contains(LowerStr(resume.raw_text), LowerStr(job.title))
    /\ resume.skills # <<>>

\* score = 60*|R \cap J|/|J| + 30*m + t, over integers; m is |R \cap M|/|M|,
\* or 1 when M is empty, and t = tn/td
ScoreIs(score, R, J, M, tn, td) ==
    LET nJ == Cardinality(J)
        mn == IF M = {} THEN 1 ELSE Cardinality(R \cap M)
        md == IF M = {} THEN 1 ELSE Cardinality(M)
    IN  score.num * nJ * md * td
            = score.den * (60 * Cardinality(R \cap J) * md * td
                           + 30 * mn * nJ * td
                           + tn * nJ * md)

\* C3: with a non-empty job-keyword universe J,
\* ats_score = 60*|R \cap J|/|J| + 30*m + titleScore with m = |R \cap M|/|M|, or 1
\* when M is empty; full keyword coverage, full must-have coverage and a
\* matching title (10 points) give exactly 100.
C3_ScoreFormula ==
    Analysed =>
        LET R == ResumeKeywordsSet(resume)
            J == JobKeywordsLower(job)
            t == TitleScore(resume, job)
        IN  J # {} =>
              /\ ScoreIs(Score, R, J, MustHaveLower(job), t.num, t.den)
              /\ (J \subseteq R /\ t = Float(10)) => Score = Float(100)

C3_Witness ==
    /\ Analysed
    /\ JobKeywordsLower(job) # {}
    /\ MustHaveLower(job) = {}
    /\ Cardinality(JobKeywordsLower(job)) = 2
    /\ Score = Float(65)

\* the title component as the claim C4 states it
ClaimedTitle(r, j) ==
    IF Contains(LowerStr(r.raw_text), LowerStr(j.title)) THEN 10
    ELSE IF \E w \in Range(SplitWs(LowerStr(j.title))) :
                w \in Range(SplitWs(LowerStr(r.raw_text)))
         THEN 5
         ELSE 0

\* C4 as stated: for every job title, of any length, and a non-empty
\* job-keyword universe, the title component of the score is 10 if the
\* lower-cased title is a substring of the lower-cased raw_text, else 5 if a
\* whitespace token of the title is a token of raw_text, else 0.
C4_TitleComponentAnyTitle ==
    Analysed =>
        LET J == JobKeywordsLower(job)
        IN  J # {} =>
              ScoreIs(Score, ResumeKeywordsSet(resume), J, MustHaveLower(job),
                      ClaimedTitle(resume, job), 1)

\* C4 amended: the same for every non-empty job title; for the empty title
\* the title component is 0.
C4_TitleComponentNonEmptyTitle ==
    Analysed =>
        LET J == JobKeywordsLower(job)
        IN  J # {} =>
              ScoreIs(Score, ResumeKeywordsSet(resume), J, MustHaveLower(job),
                      IF job.title = <<>> THEN 0 ELSE ClaimedTitle(resume, job), 1)

C4_Witness ==
    /\ Analysed
    /\ JobKeywordsLower(job) # {}
    /\ job.title # <<>>
    /\ ClaimedTitle(resume, job) = 5

\* the resume keyword set as the claim C5 writes it
ClaimedResumeKeywords(r) ==
    LowerSet(Range(r.skills))
    \cup (IF r.summary # None THEN LowerSet(Range(SplitWs(r.summary[1]))) ELSE {})
    \cup UNION {{LowerStr(r.experience[e].title), LowerStr(r.experience[e].company)} :
                    e \in DOMAIN r.experience}
    \cup UNION {UNION {LowerSet(Range(SplitWs(r.experience[e].bullets[b]))) :
                            b \in DOMAIN r.experience[e].bullets} :
                    e \in DOMAIN r.experience}

\* C5: as sets, keyword_overlap = R \cap J and
\* missing_keywords = (M \ R) \cup (N \ R), R being the case-folded union of the
\* skills as whole strings, the summary's tokens, each experience title and
\* company as whole strings and the tokens of every bullet.
C5_OverlapAndMissing ==
    Analysed =>
        LET R == ClaimedResumeKeywords(resume)
        IN  /\ Range(analysis[1].keyword_overlap) = R \cap JobKeywordsLower(job)
            /\ Range(analysis[1].missing_keywords)
                 = (MustHaveLower(job) \ R) \cup (NiceToHaveLower(job) \ R)

C5_Witness ==
    /\ Analysed
    /\ resume.skills = <<>>
    /\ Str("ml ops") \in Range(analysis[1].keyword_overlap)
    /\ Str("sql") \in Range(analysis[1].keyword_overlap)
    /\ Str("py") \in Range(analysis[1].missing_keywords)
    /\ Str("go") \notin Range(analysis[1].missing_keywords)

IsPrefix(p, s) == Len(p) <= Len(s) /\ SubSeq(s, 1, Len(p)) = p

\* which of the four advices a recommendation string is
AdviceKind(rec) ==
    IF IsPrefix(MustHaveAdvice, rec) THEN 1
    ELSE IF IsPrefix(NiceToHaveAdvice, rec) THEN 2
    ELSE IF rec = SummaryAdvice THEN 3
    ELSE IF rec = SkillsAdvice THEN 4
    ELSE 0

\* the advices due, in the claim's order: 1 a must-have keyword is missing,
\* 2 a nice-to-have keyword is missing, 3 the summary is absent or shorter than
\* 50 characters, 4 the resume has fewer than 5 skills
AdviceDue(r, j) ==
    LET R == ResumeKeywordsSet(r)
    IN  (IF MustHaveLower(j) \ R # {} THEN <<1>> ELSE <<>>)
        \o (IF NiceToHaveLower(j) \ R # {} THEN <<2>> ELSE <<>>)
        \o (IF r.summary = None \/ Len(r.summary[1]) < 50 THEN <<3>> ELSE <<>>)
        \o (IF Len(r.skills) < 5 THEN <<4>> ELSE <<>>)

\* C6: recommendations is exactly the subsequence of [must-have advice,
\* nice-to-have advice, summary advice, skills advice] whose conditions hold
\* (a must-have keyword missing, a nice-to-have keyword missing, summary absent
\* or shorter than 50 characters, fewer than 5 skills), so at most 4 items.
C6_RecommendationsExact ==
    Analysed =>
        LET recs == analysis[1].recommendations
        IN  /\ [i \in DOMAIN recs |-> AdviceKind(recs[i])] = AdviceDue(resume, job)
            /\ Len(recs) <= 4

C6_Witness ==
    /\ Analysed
    /\ AdviceDue(resume, job) = <<2, 4>>
    /\ Len(analysis[1].recommendations) = 2

\* ord(c) for the characters of the model's alphabet
CodeTable(chars, first) ==
    [c \in Range(chars) |-> first - 1 + (CHOOSE i \in DOMAIN chars : chars[i] = c)]

CodePoint ==
    CodeTable(<<"\t", "\n">>, 9)
    @@ CodeTable(<<" ">>, 32)
    @@ CodeTable(<<"#">>, 35)
    @@ CodeTable(Str("+,-./0123456789"), 43)
    @@ CodeTable(UpperAZ, 65)
    @@ CodeTable(LowerAZ, 97)

\* a < b for two str, as Python compares them
StrLess(a, b) ==
    \E k \in 1..(Min2(Len(a), Len(b)) + 1) :
        /\ SubSeq(a, 1, k - 1) = SubSeq(b, 1, k - 1)
        /\ IF k > Len(a) THEN k <= Len(b)
           ELSE k <= Len(b) /\ CodePoint[a[k]] < CodePoint[b[k]]

IsSorted(xs) == \A i \in 1..(Len(xs) - 1) : StrLess(xs[i], xs[i + 1])

\* sorted(S)
Sorted(S) == CHOOSE f \in Orderings(S) : IsSorted(f)

\* C7: the set-derived outputs are in sorted order: missing_keywords is
\* sorted, and each keyword recommendation names the first 5 of its missing
\* set in sorted order.
C7_OutputsSorted ==
    Analysed =>
        LET R == ResumeKeywordsSet(resume)
            missing_must_have == MustHaveLower(job) \ R
            missing_nice_to_have == NiceToHaveLower(job) \ R
        IN  /\ IsSorted(analysis[1].missing_keywords)
            /\ analysis[1].recommendations
                 = GenerateRecommendations(Sorted(missing_must_have),
                                           Sorted(missing_nice_to_have), resume)

----------------------------------------------------------------------------
(* Properties of the resume parser                                          *)

Parsed == parsed # None

\* C8: extract_skills returns no two elements that are equal when letter
\* case is ignored: of tokens differing only in case the first one seen is
\* kept (Python, python, SQL give [Python, SQL]).
C8_SkillsUniqueIgnoringCase ==
    Parsed =>
        LET skills == parsed[1].skills
        IN  \A i, j \in DOMAIN skills :
                LowerStr(skills[i]) = LowerStr(skills[j]) => i = j

\* some line of t is a header of the section
HasHeader(t, name) ==
    LET lines == SplitLines(t)
    IN  \E i \in DOMAIN lines : MatchesSection(Strip(lines[i]), name)

\* the pattern matches at no offset of t
NoMatchAnywhere(re, t, ci) == \A i \in 0..Len(t) : ReMatch(<<re>>, t, i, ci) = NoMatch

\* C10: on every text, the empty and the whitespace-only one included, the
\* five extractors return a value; a section whose header is not found comes
\* back as the default (empty list for experience, skills and education,
\* None for the summary), and a contact field whose pattern matches nowhere
\* is None.
C10_DefaultsWhenAbsent ==
    Parsed =>
        LET r == parsed[1]
        IN  /\ ~HasHeader(text, "summary") => r.summary = None
            /\ ~HasHeader(text, "experience") => r.experience = <<>>
            /\ ~HasHeader(text, "skills") => r.skills = <<>>
            /\ ~HasHeader(text, "education") => r.education = <<>>
            /\ NoMatchAnywhere(EMAIL_PATTERN, text, FALSE) => r.contact.email = None
            /\ NoMatchAnywhere(PHONE_PATTERN, text, FALSE) => r.contact.phone = None
            /\ NoMatchAnywhere(LINKEDIN_PATTERN, text, TRUE) => r.contact.linkedin = None
            /\ NoMatchAnywhere(GITHUB_PATTERN, text, TRUE) => r.contact.github = None

\* a whitespace-only text has been parsed: no header and no contact pattern
C10_Witness ==
    /\ Parsed
    /\ text # <<>>
    /\ Strip(text) = <<>>
    /\ parsed[1].skills = <<>>
    /\ parsed[1].contact.email = None

----------------------------------------------------------------------------
(* Properties of extract_contact                                            *)

ContactExtracted == request = Some([op |-> "extract_contact"])

\* the words a name line may not begin with
HeaderWords ==
    {Str("email"), Str("phone"), Str("location"), Str("address"), Str("contact"),
     Str("summary"), Str("experience"), Str("skills"), Str("education")}

\* the conditions of the name rule on a trimmed line, given the email and
\* the phone that were found
QualifiesAsName(line, email, phone) ==
    /\ line # <<>>
    /\ email # None => ~Contains(line, email[1])
    /\ phone # None => ~Contains(line, phone[1])
    /\ ~\E w \in HeaderWords : IsPrefix(w, LowerStr(line))
    /\ Len(SplitWs(line)) >= 2
    /\ Len(SplitWs(line)) <= 4
    /\ Range(line) \cap Digits = {}
    /\ line[1] \notin {"-", BULLET, "*", "#"}
    /\ ":" \notin Range(line)

\* C11: name is the first of the first 10 lines that is non-blank, holds
\* neither the found email nor the found phone, does not begin with a
\* section-header word, has 2 to 4 tokens, no digit, no leading list marker
\* and no colon, and None if there is no such line; a text beginning with
\* the lines Jane Smith, jane.smith@example.com, +1 555 123 4567 gives that
\* name, that email and that phone.
C11_NameIsFirstQualifyingLine ==
    ContactExtracted =>
        LET c == result[1]
            lines == SplitLines(text)
            candidates == {i \in 1..Min2(10, Len(lines)) :
                             QualifiesAsName(Strip(lines[i]), c.email, c.phone)}
        IN  /\ candidates = {} => c.name = None
            /\ candidates # {} =>
                 c.name = Some(Strip(lines[CHOOSE i \in candidates :
                                             \A j \in candidates : i <= j]))
            /\ IsPrefix(ExampleContactText, text) =>
                 /\ c.name = Some(Str("Jane Smith"))
                 /\ c.email = Some(Str("jane.smith@example.com"))
                 /\ c.phone = Some(Str("+1 555 123 4567"))

\* the contact details of the example have been extracted
C11_Witness ==
    /\ ContactExtracted
    /\ text = ExampleContactText
    /\ result[1].name = Some(Str("Jane Smith"))
    /\ result[1].phone = Some(Str("+1 555 123 4567"))

----------------------------------------------------------------------------
(* Properties of the experience segmenter and entry parser                  *)

ExperienceSegmented == request = Some([op |-> "experience_entries"])

\* the four fields the text of a block states
FourFields(e) == [title |-> e.title, company |-> e.company, dates |-> e.dates, bullets |-> e.bullets]
StatedFields(b) ==
    [title |-> b.title, company |-> b.company, dates |-> b.dates,
     bullets |-> [k \in DOMAIN b.bullets |-> b.bullets[k].body]]

ExampleExperienceEntries ==
    <<[title |-> Str("Software Engineer"), company |-> Str("Acme Corp"),
       dates |-> Str("2020 - Present"), bullets |-> <<Str("Built APIs"), Str("Led team")>>],
      [title |-> Str("Junior Dev"), company |-> Str("Beta Inc"),
       dates |-> Str("2018 - 2020"), bullets |-> <<Str("Wrote tests")>>]>>

\* C12: segmenting and parsing the example experience text yields exactly
\* its two entries in source order, with the stated title, company, dates
\* and bullets; and blocks of a title, a company, a date line and bullets
\* separated by an empty line yield one entry each, with those four fields.
C12_BlocksYieldEntries ==
    ExperienceSegmented =>
        /\ text = ExampleExperienceText =>
               [k \in DOMAIN result[1] |-> FourFields(result[1][k])] = ExampleExperienceEntries
        /\ \A blocks \in ExperienceBlockSeqs :
               text = RenderBlocks(blocks) =>
                   [k \in DOMAIN result[1] |-> FourFields(result[1][k])]
                       = [k \in DOMAIN blocks |-> StatedFields(blocks[k])]

\* the example has been segmented and parsed into two entries
C12_Witness ==
    /\ ExperienceSegmented
    /\ text = ExampleExperienceText
    /\ Len(result[1]) = 2
    /\ result[1][2].bullets = <<Str("Wrote tests")>>

----------------------------------------------------------------------------
(* Properties of the section locator                                        *)

SectionLocated == request # None /\ request[1].op = "_extract_section"

\* the header words and phrases of a section: the alternatives of its patterns
HeaderPhrases(name) ==
    UNION {{p.xs[2].xs[i].s : i \in DOMAIN p.xs[2].xs} : p \in Range(SECTION_PATTERNS(name))}

\* the header words of every section
HeaderPhrasesOf == [k \in DOMAIN SectionNames |-> HeaderPhrases(SectionNames[k])]

\* the sections the line begins with a header word of, once trimmed, in any
\* case; and those a header word of which occurs somewhere in the line
SectionsBegun(line) ==
    LET Begun(lowered) ==
            {SectionNames[k] : k \in {j \in DOMAIN SectionNames :
                                         \E w \in HeaderPhrasesOf[j] : IsPrefix(w, lowered)}}
    IN  Begun(LowerStr(Strip(line)))
SectionsNamed(line) ==
    LET Named(lowered) ==
            {SectionNames[k] : k \in {j \in DOMAIN SectionNames :
                                         \E w \in HeaderPhrasesOf[j] : Contains(lowered, w)}}
    IN  Named(LowerStr(Strip(line)))

\* the line the located section starts at, 0 if the section is absent
LocatedStart == SectionStart(SplitLines(text), request[1].section_name)

\* the line after the last line of the located section: the line that ended
\* it, or one more than the number of lines if it ran to the end of the text
LocatedEnd ==
    IF result[1] = None THEN 0 ELSE LocatedStart + Len(SplitLines(result[1][1]))

\* C13: a line in which a header word of a section occurs only after the
\* start of the line is never the start of that section, and it does not end
\* the extraction of another section (a line that begins with a header word
\* of a section other than the extracted one ends it as that header).
C13_MidLineWordIsNoHeader ==
    LET Holds(lines, section_name) ==
            \A i \in DOMAIN lines :
                LET Anchored(begun, mid) ==
                        /\ section_name \in mid => i # LocatedStart
                        /\ (mid \ {section_name} # {} /\ begun \ {section_name} = {})
                           => i # LocatedEnd
                IN  Anchored(SectionsBegun(lines[i]), SectionsNamed(lines[i]) \ SectionsBegun(lines[i]))
    IN  SectionLocated => Holds(SplitLines(text), request[1].section_name)

\* the summary has been extracted from a text whose summary says 'I have
\* experience in management' and it includes the skills header's predecessor
C13_Witness ==
    /\ SectionLocated
    /\ text = Str(" Summary \nI have experience in management\nSkills")
    /\ request[1].section_name = "summary"
    /\ result[1] = Some(Str(" Summary \nI have experience in management"))

\* the least element of a non-empty set of numbers
MinOf(S) == CHOOSE x \in S : \A y \in S : x <= y

\* the lines of the section, given the lines that begin with a header word
\* of the section and those that begin with a header word of another one
LinesBetween(lines, starts, others) ==
    LET Upto(first, ends) ==
            SubSeq(lines, first, IF ends = {} THEN Len(lines) ELSE MinOf(ends) - 1)
        From(first) == Upto(first, {j \in others : j > first})
    IN  IF starts = {} THEN None ELSE Some(JoinLines(From(MinOf(starts))))

\* C18: _extract_section(text, S) returns the lines from the first line
\* matching a header pattern of S up to, but excluding, the first later
\* non-blank line matching a header pattern of another section; blank lines
\* and later lines matching S's own patterns do not end the section, with no
\* ending line it runs to the end of the text, and with no header of S the
\* result is None.  A line matches a pattern when, trimmed, it begins with
\* one of the pattern's words in any letter case.
C18_SectionRange ==
    LET Range18(lines, section_name) ==
            LinesBetween(lines,
                         {i \in DOMAIN lines : section_name \in SectionsBegun(lines[i])},
                         {j \in DOMAIN lines :
                              /\ Strip(lines[j]) # <<>>
                              /\ SectionsBegun(lines[j]) \ {section_name} # {}})
    IN  SectionLocated => result[1] = Range18(SplitLines(text), request[1].section_name)

\* the skills section of a text with a second skills header before the
\* Experience header has been extracted
C18_Witness ==
    /\ SectionLocated
    /\ request[1].section_name = "skills"
    /\ text = Str("Skills\nTechnical Skills\nExperience")
    /\ result[1] = Some(Str("Skills\nTechnical Skills"))

\* C19: a line is treated as a section header only when a header pattern
\* matches the full trimmed line: the line that starts the located section
\* and the line that ends it are, trimmed and in lower case, header words;
\* a line that begins with a header word and continues with other text
\* neither starts nor ends a section.
C19_HeaderOnlyOnFullLine ==
    LET Holds(lines, header_words) ==
            \A i \in DOMAIN lines :
                (i = LocatedStart \/ i = LocatedEnd) => LowerStr(Strip(lines[i])) \in header_words
    IN  SectionLocated =>
            Holds(SplitLines(text), UNION {HeaderPhrasesOf[k] : k \in DOMAIN SectionNames})

----------------------------------------------------------------------------
(* Properties of the entry parsers                                          *)

ExperienceEntryParsed == request = Some([op |-> "_parse_experience_entry"]) /\ result[1] # None
EducationEntryParsed == request = Some([op |-> "_parse_education_entry"]) /\ result[1] # None

\* the trimmed lines of the text
StrippedLines(t) == {Strip(line) : line \in Range(SplitLines(t))}

\* C14: every Experience returned has a non-empty title and a non-empty
\* company, and every Education returned has a non-empty institution: a
\* title that no line was taken for is 'Unknown'.
C14_NoEmptyTitleCompanyInstitution ==
    /\ ExperienceEntryParsed =>
           /\ result[1][1].title # <<>>
           /\ result[1][1].company # <<>>
           /\ result[1][1].title \in StrippedLines(text) \cup {Str("Unknown")}
    /\ EducationEntryParsed => result[1][1].institution # <<>>

\* an entry that is only a date line has been parsed into an Experience
\* whose title and company are the sentinel
C14_Witness ==
    /\ ExperienceEntryParsed
    /\ text = Str("2020 - Present")
    /\ result[1][1].title = Str("Unknown")
    /\ result[1][1].company = Str("Unknown")
    /\ result[1][1].dates = Str("2020 - Present")

----------------------------------------------------------------------------
(* Properties of concurrent calls                                           *)

\* the values the call returns when no other call is running
AloneResults(call) ==
    CASE call.op = "extract_summary" -> {ExtractSummary(call.text)}
      [] call.op = "extract_skills" -> {ExtractSkills(call.text)}
      [] call.op = "analyze_match" -> AnalyzeMatchResults(call.resume, call.job)

\* ... for every call of the threads
AloneResultsOf == [call \in ThreadCalls |-> AloneResults(call)]

CallsReturnAsAlone ==
    \A t \in DOMAIN threads :
        threads[t].pc = "done" =>
            threads[t].ret[1] \in AloneResultsOf[[threads[t] EXCEPT !.pc = "call", !.ret = None]]

InputsKept ==
    \A t \in DOMAIN threads :
        /\ threads'[t].op = threads[t].op
        /\ threads'[t].text = threads[t].text
        /\ threads'[t].resume = threads[t].resume
        /\ threads'[t].job = threads[t].job

\* C15: under every interleaving of the steps of concurrent extract_summary,
\* extract_skills and analyze_match calls on one SectionExtractor and one
\* ResumeMatcher, every call returns a value it returns when run alone, and
\* no step changes the text, the ParsedResume or the JobPosting of a call.
C15_CallsDoNotInterfere == [](CallsReturnAsAlone) /\ [][InputsKept]_vars

\* an extract_skills call and an analyze_match call on different inputs
\* have both returned
C15_Witness ==
    /\ DOMAIN threads = 1..NumThreads
    /\ \A t \in DOMAIN threads : threads[t].pc = "done"
    /\ threads[1].op = "extract_skills" /\ threads[1].ret = Some(<<Str("Go"), Str("Rust"), Str("SQL")>>)
    /\ threads[2].op = "analyze_match" /\ threads[2].text # threads[1].text

----------------------------------------------------------------------------
(* Properties of the language of a parsed resume                            *)

\* the number of characters of t that are in S
CountIn(t, S) == Cardinality({i \in DOMAIN t : t[i] \in S})

\* more than 30% of the alphabetic characters of t are Cyrillic
MostlyCyrillic(t) ==
    10 * CountIn(t, CyrLower \cup CyrUpper) > 3 * CountIn(t, Letters \cup CyrLower \cup CyrUpper)

\* C16: the language of a ParsedResume is 'ru' when more than 30% of the
\* alphabetic characters of the text are Cyrillic, and 'en' otherwise.
C16_LanguageByCyrillicRatio ==
    Parsed => parsed[1].language = (IF MostlyCyrillic(text) THEN Str("ru") ELSE Str("en"))

----------------------------------------------------------------------------
(* Properties of the language detector                                      *)

LanguageDetected == request # None /\ request[1].op = "detect_language"

----------------------------------------------------------------------------
(* Properties of extract_skills                                             *)

SkillsExtracted == request = Some([op |-> "extract_skills"])

\* s without the whitespace at its start
RECURSIVE LStrip(_)
LStrip(s) == IF s = <<>> \/ s[1] \notin Whitespace THEN s ELSE LStrip(Tail(s))

\* s without a bullet at its start, and without a number and '.' or ')'
WithoutBullet(s) ==
    IF s # <<>> /\ s[1] \in {"-", BULLET, "*"} THEN LStrip(Tail(s)) ELSE s
WithoutNumber(s) ==
    LET IsNoDigit(i) == s[i] \notin Digits
        After(n) ==
            IF n >= 2 /\ s[n] \in {".", ")"} THEN LStrip(SubSeq(s, n + 1, Len(s))) ELSE s
    IN  After(FirstIndexFrom(IsNoDigit, 1, Len(s)))

\* the tokens of a line: the marker stripped, split on commas if there is a
\* comma, else on pipes if there is a pipe, else the whole line; each token
\* trimmed, the empty ones left out
LineTokens(line) ==
    LET Pieces(l) ==
            IF "," \in Range(l) THEN SplitOn(l, ",")
            ELSE IF "|" \in Range(l) THEN SplitOn(l, "|")
            ELSE <<l>>
        Trimmed(pieces) == SelectSeq([k \in DOMAIN pieces |-> Strip(pieces[k])],
                                     LAMBDA piece : piece # <<>>)
    IN  Trimmed(Pieces(WithoutNumber(WithoutBullet(Strip(line)))))

\* xs without the elements that occurred before
FirstOccurrences(xs) ==
    LET Kept == {i \in DOMAIN xs : \A j \in 1..(i - 1) : xs[j] # xs[i]}
        Nth(n) == CHOOSE i \in Kept : Cardinality({j \in Kept : j < i}) = n - 1
    IN  [n \in 1..Cardinality(Kept) |-> xs[Nth(n)]]

\* C20: extract_skills returns, for the lines after the header line of the
\* skills section in order, the tokens of every line: the leading bullet or
\* number marker stripped, then split on commas if the line has a comma,
\* else on pipes if it has a pipe, else the whole line; every returned token
\* is trimmed and not empty, and the header line gives no token.  A token
\* that occurred before is not returned again.
C20_SkillTokens ==
    LET Expected(lines) ==
            FirstOccurrences(Flatten([k \in DOMAIN lines |-> LineTokens(lines[k])]))
    IN  SkillsExtracted =>
            /\ result[1] = Expected(Tail(SplitLines(text)))
            /\ \A k \in DOMAIN result[1] :
                   result[1][k] # <<>> /\ result[1][k] = Strip(result[1][k])

\* a line with a comma and a pipe has been split on its comma only
C20_Witness ==
    /\ SkillsExtracted
    /\ text = Str("Skills\na, b | c\n- Python | SQL")
    /\ result[1] = <<Str("a"), Str("b | c"), Str("Python"), Str("SQL")>>

----------------------------------------------------------------------------
(* Properties of _split_experience_entries                                  *)

\* inside a call of _split_experience_entries, and after it has returned
Segmenting == request # None /\ request[1].op = "_split_experience_entries" /\ result = None
Segmented == request # None /\ request[1].op = "_split_experience_entries" /\ result # None

\* a line marked as a bullet in any style: '-', U+2022, '*', '<number>.' or '<number>)'
MarkedLine(line) ==
    LET Marked(s) ==
            /\ s # <<>>
            /\ \/ s[1] \in {"-", "BULLET", "*"}
               \/ \E n \in 1..(Len(s) - 1) :
                      /\ \A k \in 1..n : s[k] \in Digits
                      /\ s[n + 1] \in {".", ")"}
    IN  Marked(Strip(line))

\* the line the loop is at, and the pass over it
LineAt == request[1].lines[request[1].i]
PassOverLine ==
    /\ Segmenting
    /\ request[1].i <= Len(request[1].lines)
    /\ request' # None
    /\ request'[1].i = request[1].i + 1

\* the conditions under which a line starts a new entry
StartsNewEntry(line, buffer) ==
    /\ \A k \in DOMAIN buffer : ~MarkedLine(buffer[k])
    /\ Len(buffer) >= 3
    /\ ~MarkedLine(line)
    /\ ~Found(YearRe, Strip(line), FALSE)
    /\ Len(Strip(line)) > 3

\* C21: a non-blank line closes the buffer and starts a new entry exactly
\* when the buffer holds no bullet-marked line of any style and at least 3
\* lines, and the line is not bullet-marked, has no 4-digit year and is longer
\* than 3 characters; in every other case the line is appended to the buffer.
C21_NewEntryOnlyWithoutBullets ==
    [][(PassOverLine /\ Strip(LineAt) # <<>>) =>
           IF StartsNewEntry(LineAt, request[1].current_entry)
           THEN /\ request'[1].entries
                       = Append(request[1].entries, JoinLines(request[1].current_entry))
                /\ request'[1].current_entry = <<LineAt>>
           ELSE /\ request'[1].entries = request[1].entries
                /\ request'[1].current_entry = Append(request[1].current_entry, LineAt)]_vars

\* the lines of the text, and whether the first begins with a header phrase
\* of the experience section of the section locator
BeginsWithExperienceHeader(line) ==
    LET Begins(lowered) ==
            \E w \in HeaderPhrasesOf[2] : IsPrefix(w, lowered)
    IN  Begins(LowerStr(Strip(line)))

\* C22: when the first line of the section begins with a header phrase of
\* the experience section, in English or Russian, that line is in no
\* returned block.
C22_HeaderLineInNoBlock ==
    (Segmented /\ BeginsWithExperienceHeader(SplitLines(text)[1])) =>
        \A b \in DOMAIN result[1] :
            \A k \in DOMAIN SplitLines(result[1][b]) :
                SplitLines(result[1][b])[k] # SplitLines(text)[1]

\* the lines of the section the loop goes over: all of them, or all but the
\* first when the header line was left out
LinesAfterHeader ==
    IF Len(request[1].lines) < Len(SplitLines(text))
    THEN Tail(SplitLines(text)) ELSE SplitLines(text)

NotBlank(line) == Strip(line) # <<>>

\* C28: no returned block is empty or has a blank line, and the lines of
\* the returned blocks, in order, are the non-blank lines of the section in
\* source order, without the header line that was left out.
C28_BlocksKeepEveryLine ==
    Segmented =>
        LET Kept(blocks) ==
                /\ \A b \in DOMAIN blocks :
                       /\ blocks[b] # <<>>
                       /\ \A k \in DOMAIN blocks[b] : NotBlank(blocks[b][k])
                /\ Flatten(blocks) = SelectSeq(LinesAfterHeader, NotBlank)
        IN  Kept([b \in DOMAIN result[1] |-> SplitLines(result[1][b])])

\* a call that returned two blocks, over a text with blank lines and a
\* header line
C28_Witness ==
    /\ Segmented
    /\ text = Str("Experience\nDev\nAcme Corp\n2020 - Present\n \nWrapped text")
    /\ result[1] = <<Str("Dev\nAcme Corp\n2020 - Present"), Str("Wrapped text")>>

----------------------------------------------------------------------------
(* Properties of _parse_experience_entry: the header lines                  *)

\* the first position from p on where s has no white space
AfterSpace(s, p) ==
    IF \E q \in p..Len(s) : s[q] \notin Whitespace
    THEN CHOOSE q \in p..Len(s) : s[q] \notin Whitespace /\ \A k \in p..(q - 1) : s[k] \in Whitespace
    ELSE Len(s) + 1

\* a 4-digit year 19xx or 20xx begins at position p of s, as a word of its own
YearAt(s, p) ==
    /\ p >= 1
    /\ p + 3 <= Len(s)
    /\ <<s[p], s[p + 1]>> \in {<<"1", "9">>, <<"2", "0">>}
    /\ s[p + 2] \in Digits
    /\ s[p + 3] \in Digits
    /\ (p = 1 \/ s[p - 1] \notin WordChars)
    /\ (p + 3 = Len(s) \/ s[p + 4] \notin WordChars)

HasYear(s) == \E p \in DOMAIN s : YearAt(s, p)

\* the last position of the date that begins with the year at p: the year,
\* or the year, a dash and a second year, 'Present' or 'Current' in any case
DateEnd(s, p) ==
    LET EndAfterDash(r) ==
            IF YearAt(s, r) THEN r + 3
            ELSE IF LowerStr(SubSeq(s, r, Min2(r + 6, Len(s)))) \in {Str("present"), Str("current")}
                 THEN r + 6
                 ELSE p + 3
        EndAfterYear(q) ==
            IF q <= Len(s) /\ s[q] \in DashChars THEN EndAfterDash(AfterSpace(s, q + 1))
            ELSE p + 3
    IN  EndAfterYear(AfterSpace(s, p + 4))

\* the first year of s from position p on, 0 if there is none
YearFrom(s, p) ==
    IF \E q \in p..Len(s) : YearAt(s, q)
    THEN CHOOSE q \in p..Len(s) : YearAt(s, q) /\ \A k \in p..(q - 1) : ~YearAt(s, k)
    ELSE 0

\* the date of a line with a year
DateOf(s) ==
    LET From(p) == SubSeq(s, p, DateEnd(s, p))
    IN  From(YearFrom(s, 1))

\* the line from position p on, without its dates
RECURSIVE WithoutDatesFrom(_, _)
WithoutDatesFrom(s, p) ==
    LET Cut(q) ==
            IF q = 0 THEN SubSeq(s, p, Len(s))
            ELSE SubSeq(s, p, q - 1) \o WithoutDatesFrom(s, DateEnd(s, q) + 1)
    IN  Cut(YearFrom(s, p))

\* the entry's lines, trimmed, without the blank ones; its header lines are
\* those before the first line with a marker
EntryLines(t) == SelectSeq([k \in DOMAIN SplitLines(t) |-> Strip(SplitLines(t)[k])],
                           LAMBDA l : l # <<>>)
FirstMarked(lines) ==
    IF \E k \in DOMAIN lines : MarkedLine(lines[k])
    THEN CHOOSE k \in DOMAIN lines : MarkedLine(lines[k]) /\ \A j \in 1..(k - 1) : ~MarkedLine(lines[j])
    ELSE Len(lines) + 1
HeaderLinesOf(lines) == SubSeq(lines, 1, FirstMarked(lines) - 1)
BulletLinesOf(lines) == SubSeq(lines, FirstMarked(lines), Len(lines))

\* title, company and dates after the header lines up to the n-th
RECURSIVE Classified(_, _)
Classified(header, n) ==
    IF n = 0 THEN [title |-> <<>>, company |-> <<>>, dates |-> <<>>]
    ELSE LET With(before, line, dated) ==
                 IF n = 1 /\ ~dated THEN [before EXCEPT !.title = line]
                 ELSE IF n = 2 /\ ~dated THEN [before EXCEPT !.company = line]
                 ELSE IF dated THEN
                     [before EXCEPT !.dates = DateOf(line),
                                    !.company = IF before.company = <<>>
                                                     /\ Strip(WithoutDatesFrom(line, 1)) # <<>>
                                                THEN Strip(WithoutDatesFrom(line, 1))
                                                ELSE before.company]
                 ELSE IF before.title = <<>> /\ before.company = <<>>
                     THEN [before EXCEPT !.title = line]
                 ELSE IF before.title # <<>> /\ before.company = <<>>
                     THEN [before EXCEPT !.company = line]
                 ELSE before
         IN  With(Classified(header, n - 1), header[n], HasYear(header[n]))

\* the fields of the returned record for the classified header lines
FieldsOf(head) ==
    [title |-> IF head.title = <<>> THEN Str("Unknown") ELSE head.title,
     company |-> IF head.company = <<>> THEN Str("Unknown") ELSE head.company,
     dates |-> head.dates]

\* C23: header line 0 without a year is the title and header line 1 without
\* a year the company; a header line with a year gives the dates (the year,
\* or the year, a dash and a year, 'Present' or 'Current'), and what is left
\* of it without the dates is the company if none is set; any other line is
\* the title if neither title nor company is set, the company if only the
\* title is set.
C23_HeaderLinesClassified ==
    (ExperienceEntryParsed /\ result[1] # None) =>
        LET Same(r, fields) ==
                /\ r.title = fields.title
                /\ r.company = fields.company
                /\ r.dates = fields.dates
            Fields(header) == FieldsOf(Classified(header, Len(header)))
        IN  Same(result[1][1], Fields(HeaderLinesOf(EntryLines(text))))

\* a dated third line after a title and a company line: its dates are
\* taken, the text before them is not
C23_Witness ==
    /\ ExperienceEntryParsed
    /\ text = Str("Dev\nDev\nAcme 2019 - 2021")
    /\ result[1] # None
    /\ result[1][1].title = Str("Dev")
    /\ result[1][1].company = Str("Dev")
    /\ result[1][1].dates = Str("2019 - 2021")

\* a bullet line without its markers: one '-', U+2022 or '*' and the white
\* space after it, then a number with '.' or ')' and the white space after it
Unmarked(line) ==
    LET DigitsEnd(s) ==
            IF \E n \in 1..(Len(s) - 1) : (\A k \in 1..n : s[k] \in Digits) /\ s[n + 1] \in {".", ")"}
            THEN 1 + CHOOSE n \in 1..(Len(s) - 1) :
                         (\A k \in 1..n : s[k] \in Digits) /\ s[n + 1] \in {".", ")"}
            ELSE 0
        NoNumber(s) ==
            IF DigitsEnd(s) = 0 THEN s
            ELSE SubSeq(s, AfterSpace(s, DigitsEnd(s) + 1), Len(s))
        NoBullet(s) ==
            IF s # <<>> /\ s[1] \in {"-", "BULLET", "*"}
            THEN SubSeq(s, AfterSpace(s, 2), Len(s)) ELSE s
    IN  Strip(NoNumber(NoBullet(line)))

\* C24: the header lines are the non-blank lines before the first marked
\* line and the bullet lines that line and every later one; bullets are the
\* bullet lines in order, without their markers and without those left
\* empty, and title, company and dates are those of the header lines alone.
C24_HeaderBeforeFirstBullet ==
    (ExperienceEntryParsed /\ result[1] # None) =>
        LET Same(r, fields, bullet_lines) ==
                /\ r.bullets = SelectSeq([k \in DOMAIN bullet_lines |-> Unmarked(bullet_lines[k])],
                                         LAMBDA b : b # <<>>)
                /\ r.title = fields.title
                /\ r.company = fields.company
                /\ r.dates = fields.dates
            Alone(header) ==
                IF header = <<>> THEN FieldsOf(Classified(<<>>, 0))
                ELSE ParseExperienceEntry(JoinLines(header))[1]
        IN  Same(result[1][1], Alone(HeaderLinesOf(EntryLines(text))),
                 BulletLinesOf(EntryLines(text)))

\* a dated bullet and an unmarked line after it: both are bullets, neither
\* is the company or the dates
C24_Witness ==
    /\ ExperienceEntryParsed
    /\ text = Str("Dev\n- Built APIs 2018\nAcme 2019 - 2021")
    /\ result[1] # None
    /\ result[1][1].title = Str("Dev")
    /\ result[1][1].company = Str("Unknown")
    /\ result[1][1].dates = <<>>
    /\ result[1][1].bullets = <<Str("Built APIs 2018"), Str("Acme 2019 - 2021")>>

----------------------------------------------------------------------------
(* Properties of the education segmenter and extract_education              *)

EducationSegmented == request = Some([op |-> "education_entries"]) /\ result # None
EducationExtracted == request = Some([op |-> "extract_education"]) /\ result # None

\* the degree keywords, and a line that has one, in any case
DegreeKeywords ==
    {Str("bachelor"), Str("master"), Str("phd"), Str("doctorate"), Str("degree"),
     Cyr(<<"b", "a", "k", "a", "l", "a", "v", "r">>), Cyr(<<"m", "a", "g", "i", "s", "t", "r">>),
     Cyr(<<"d", "i", "p", "l", "o", "m">>)}
HasDegreeKeyword(line) ==
    LET In(lowered) == \E w \in DegreeKeywords : Contains(lowered, w)
    IN  In(LowerStr(line))

\* the lines of the text, trimmed
TrimmedLines(t) == [k \in DOMAIN SplitLines(t) |-> Strip(SplitLines(t)[k])]

\* the entries of the lines up to the n-th, each a list of lines, when a
\* new entry starts at the lines that Starts(lines, k) holds of and at the
\* first line of all
RECURSIVE GroupedUpTo(_, _, _)
GroupedUpTo(lines, n, starts) ==
    IF n = 0 THEN <<>>
    ELSE LET With(groups) ==
                 IF lines[n] = <<>> THEN groups
                 ELSE IF groups = <<>> \/ n \in starts THEN Append(groups, <<lines[n]>>)
                 ELSE [groups EXCEPT ![Len(groups)] = Append(@, lines[n])]
         IN  With(GroupedUpTo(lines, n - 1, starts))

\* the lines with a degree keyword, and the lines that follow a blank line
DegreeStarts(lines) == {k \in DOMAIN lines : HasDegreeKeyword(lines[k])}
AfterBlankStarts(lines) == {k \in DOMAIN lines : k > 1 /\ lines[k - 1] = <<>>}

\* the entries are the joined groups, and the details of each entry are its
\* lines after the first, or absent
EntriesAre(groups) ==
    /\ result[1].entries = [g \in DOMAIN groups |-> JoinLines(groups[g])]
    /\ \A g \in DOMAIN groups :
           /\ result[1].educations[g] # None
           /\ result[1].educations[g][1].details
                  = (IF Len(groups[g]) = 1 THEN None ELSE Some(JoinLines(Tail(groups[g]))))

HeaderAndDegreeLines(lines) ==
    /\ lines # <<>>
    /\ lines[1] = Str("Education")
    /\ \A k \in 2..Len(lines) : lines[k] # <<>> /\ HasDegreeKeyword(lines[k])

\* C29: for an Education section made of the header line and k degree lines
\* extract_education returns k records, none with the header text as its
\* institution.
C29_NoEntryFromHeaderLine ==
    (EducationExtracted /\ HeaderAndDegreeLines(SplitLines(text))) =>
        /\ Len(result[1]) = Len(SplitLines(text)) - 1
        /\ \A k \in DOMAIN result[1] : result[1][k].institution # Str("Education")

----------------------------------------------------------------------------
(* Properties of _heuristic_detect                                          *)

HeuristicDetected == request = Some([op |-> "_heuristic_detect"]) /\ result # None

\* C26: _heuristic_detect returns 'ru' exactly when the Cyrillic characters
\* are more than 0.3 of the alphabetic characters, and 'en' otherwise: at
\* exactly 0.3, for the empty text and for a text without a letter.
C26_RuAboveThreeTenths ==
    HeuristicDetected =>
        LET Expected(cyrillic, alphabetic) ==
                IF alphabetic > 0 /\ 10 * cyrillic > 3 * alphabetic THEN Str("ru") ELSE Str("en")
        IN  result[1] = Expected(CountIn(text, CyrLower \cup CyrUpper \cup {THOUSANDS}),
                                 CountIn(text, Letters \cup CyrLower \cup CyrUpper))

\* 3 Cyrillic letters of 10 letters: a ratio of exactly 0.3
C26_Witness ==
    /\ HeuristicDetected
    /\ text = Cyr(<<"m", "i", "r">>) \o Str(" letters")
    /\ result[1] = Str("en")

----------------------------------------------------------------------------
(* Properties of the match scorer on a revised resume                       *)

Revised(op) == request # None /\ request[1].op = op /\ analysis # None

\* C27: with the job and raw_text kept, the score of a resume with one more
\* keyword source is not lower than the score before, and the score of a
\* resume with one less is not higher.
C27_ScoreMonotoneInKeywords ==
    /\ Revised("more") => RatLe(request[1].ats_score, analysis[1].ats_score)
    /\ Revised("less") => RatLe(analysis[1].ats_score, request[1].ats_score)

\* the skill 'Py' added after the skill 'c', for a job that must have 'py':
\* the score rose
C27_Witness ==
    /\ Revised("more")
    /\ job.must_have_keywords = <<Str("py")>>
    /\ resume.skills = <<Str("c"), Str("Py")>>
    /\ resume.summary = None
    /\ resume.experience = <<>>
    /\ ~RatLe(analysis[1].ats_score, request[1].ats_score)

----------------------------------------------------------------------------
(* Properties of TokenTracker                                               *)

TotalIsSum == usage.total_tokens = usage.prompt_tokens + usage.completion_tokens

\* C30: after any calls of add_usage and reset the total is the sum of the
\* prompt and the completion tokens; a cached call changes cached_responses
\* alone, and reset sets the four counters to 0.
C30_TotalIsPromptPlusCompletion ==
    /\ []TotalIsSum
    /\ [][(request' # None /\ request'[1].op = "add_usage" /\ request'[1].cached) =>
              usage' = [usage EXCEPT !.cached_responses = @ + 1]]_vars
    /\ [][(request' # None /\ request'[1].op = "reset") => usage' = NewUsage]_vars

====
